---- MODULE Spec2Model ----
(***************************************************************************)
(* The /assemble command of the assemble extension (src/index.ts): the     *)
(* scout -> planner -> worker/reviewer pipeline for one Linear ticket, the  *)
(* progress documents it posts and the messages it shows.                   *)
(*                                                                         *)
(* Texts are sequences of lexemes (strings).  A lexeme is a maximal piece   *)
(* of one character class as far as the verdict pattern is concerned: a     *)
(* run of word characters, one whitespace, a colon, or other punctuation.   *)
(* Two adjacent word lexemes form one longer word.  Ticket arguments are    *)
(* sequences of single characters.                                          *)
(*                                                                         *)
(* Every action is the continuation of the handler after one awaited call   *)
(* returns: it consumes the call's result, runs the synchronous code that   *)
(* follows and issues the next awaited call.  pc names the call awaited.    *)
(* Durations and costs of phases (Date.now(), usage.cost) are left out: no  *)
(* branch of the handler reads them.                                        *)
(***************************************************************************)
EXTENDS Naturals, Sequences, FiniteSets, TLC

VARIABLES
    pc,                   \* the awaited call ("start" before the handler runs, "done" after)
    args,                 \* the command argument, a sequence of characters
    ticketId,             \* args.trim()
    ticket,               \* the fetched LinearTicket, or NoTicket
    existingComments,     \* LinearComment[]
    agents,               \* names returned by discoverAgents
    phases,               \* PhaseResult[]
    finalVerdict,         \* "approved" | "needs_work" | NULL
    lastWorkerOutput,
    lastReviewerFeedback,
    fatalError,           \* NULL, or the caught error's message (possibly the empty string)
    partialSummaryPosted,
    scoutOutput,          \* getFinalOutput(scoutResult.messages)
    planOutput,
    iteration,            \* the loop variable of the worker/reviewer loop (0 before the loop)
    uiStatus,             \* ctx.ui.setStatus("assemble", ...)
    effects,              \* every external call the handler issued, in order
    details,              \* the AssembleDetails of the 'assemble-complete' message, or NoDetails
    postResult,           \* what the most recent postComment returned (the handler drops it)
    locale,               \* the host's locale, read by toLocaleDateString
    ticketFetch,          \* how fetchTicket ended ("pending" before it returns)
    commentsFetch,        \* how fetchComments ended ("pending" before it returns)
    runNo,                \* 1 in the first invocation of the command, 2 in a repeated one
    tape,                 \* what the environment returned to invocation 1, Progress Sink apart
    firstRun,             \* what invocation 1 did, kept for the comparison with invocation 2
    parked,               \* the suspended run, when two runs of the handler are interleaved
    io                    \* the arguments and the result of a function that is called on its own

vars == <<pc, args, ticketId, ticket, existingComments, agents, phases, finalVerdict,
          lastWorkerOutput, lastReviewerFeedback, fatalError, partialSummaryPosted,
          scoutOutput, planOutput, iteration, uiStatus, effects, details, postResult, locale,
          ticketFetch, commentsFetch, runNo, tape, firstRun, parked, io>>

NULL == "null"
NoTicket == [identifier |-> <<>>, title |-> "", description |-> <<>>]
NoDetails == [status |-> "running", verdict |-> NULL, iterations |-> 0, statusText |-> "", reason |-> ""]

(***************************************************************************)
(* Program constants                                                       *)
(***************************************************************************)
REQUIRED_AGENTS == {"scout", "planner", "worker", "reviewer"}

\* A loop cap that is off by one.
MAX_ITERATIONS_OffByOne == 3 + 1

MAX_ITERATIONS == 3

(***************************************************************************)
(* Characters and lexemes                                                  *)
(***************************************************************************)
Letters == {"E", "N", "G", "k"}
Digits == {"4", "2", "7"}
Whitespace == {" "}

\* Lexemes made of word characters ([A-Za-z0-9_]).
WordLexemes == {"VERDICT", "verdict", "Verdict", "APPROVED", "approved", "Approved",
                "NEEDS_WORK", "needs_work", "Needs_Work", "LGTM", "fix", "tests", "done", "plan", "A", "B", "w1", "w2", "found"}

IsWord(x) == x \in WordLexemes

IsSpace(x) == x \in {" ", "\n"}

\* String.prototype.toUpperCase on the lexemes of the model.
ToUpperCase(x) ==
    CASE x = "verdict" -> "VERDICT"
      [] x = "Verdict" -> "VERDICT"
      [] x = "approved" -> "APPROVED"
      [] x = "Approved" -> "APPROVED"
      [] x = "needs_work" -> "NEEDS_WORK"
      [] x = "Needs_Work" -> "NEEDS_WORK"
      [] x = "fix" -> "FIX"
      [] x = "tests" -> "TESTS"
      [] x = "done" -> "DONE"
      [] x = "plan" -> "PLAN"
      [] x = "found" -> "FOUND"
      [] x = "k" -> "K"
      [] OTHER -> x

(***************************************************************************)
(* Pure helpers of src/index.ts                                            *)
(***************************************************************************)
IsAlnum(c) == c \in Letters \cup Digits

\* The pattern with an optional dash: /^[A-Za-z0-9]+-?[0-9]+$/
validateTicketId_DashOptional(id) ==
    \E d \in 1..Len(id) :
        /\ id[d] = "-" \/ id[d] \in Digits
        /\ d > 1
        /\ d < Len(id) \/ id[d] \in Digits
        /\ \A i \in 1..(d - 1) : id[i] \in Letters \cup Digits
        /\ \A i \in (d + 1)..Len(id) : id[i] \in Digits

\* The pattern without its anchors: /[A-Za-z0-9]+-[0-9]+/ finds the format anywhere.
validateTicketId_Unanchored(id) ==
    \E d \in 1..Len(id) :
        /\ id[d] = "-"
        /\ d > 1
        /\ d < Len(id)
        /\ id[d - 1] \in Letters \cup Digits
        /\ id[d + 1] \in Digits

\* /^[A-Za-z0-9]+-[0-9]+$/.test(id)
validateTicketId(id) ==
    \E d \in 1..Len(id) :
        /\ id[d] = "-"
        /\ d > 1
        /\ d < Len(id)
        /\ \A i \in 1..(d - 1) : IsAlnum(id[i])
        /\ \A i \in (d + 1)..Len(id) : id[i] \in Digits

RECURSIVE TrimStart(_)
TrimStart(s) == IF s # <<>> /\ Head(s) \in Whitespace THEN TrimStart(Tail(s)) ELSE s

RECURSIVE TrimEnd(_)
TrimEnd(s) ==
    IF s # <<>> /\ s[Len(s)] \in Whitespace THEN TrimEnd(SubSeq(s, 1, Len(s) - 1)) ELSE s

\* String.prototype.trim
Trim(s) == TrimEnd(TrimStart(s))

\* The least j >= i that is past the end of t or at a non-whitespace lexeme (\s*).
SkipSpaces(t, i) ==
    IF i > Len(t) THEN i
    ELSE CHOOSE j \in i..(Len(t) + 1) :
            /\ \A k \in i..(j - 1) : IsSpace(t[k])
            /\ j = Len(t) + 1 \/ ~IsSpace(t[j])

\* The position of the (APPROVED|NEEDS_WORK) group when
\* /\bVERDICT\s*:\s*(APPROVED|NEEDS_WORK)\b/i matches with VERDICT at lexeme i, else 0.
VerdictGroupAt(t, i) ==
    LET a == SkipSpaces(t, i + 1)
        b == SkipSpaces(t, a + 1)
    IN  IF /\ i >= 1
           /\ i <= Len(t)
           /\ ToUpperCase(t[i]) = "VERDICT"
           /\ (i = 1 \/ ~IsWord(t[i - 1]))
           /\ a <= Len(t)
           /\ t[a] = ":"
           /\ b <= Len(t)
           /\ ToUpperCase(t[b]) \in {"APPROVED", "NEEDS_WORK"}
           /\ (b = Len(t) \/ ~IsWord(t[b + 1]))
        THEN b
        ELSE 0

\* The match that output.match(...) returns is the leftmost one.
IsFirstMatch(output, i) ==
    /\ VerdictGroupAt(output, i) # 0
    /\ \A j \in 1..(i - 1) : VerdictGroupAt(output, j) = 0

\* The pattern without its i flag: only the upper-case marker matches.
parseVerdict_CaseSensitive(output) ==
    LET upper == {"VERDICT", "APPROVED", "NEEDS_WORK"}
        at(i) == IF VerdictGroupAt(output, i) # 0 /\ output[i] \in upper
                    /\ output[VerdictGroupAt(output, i)] \in upper
                 THEN VerdictGroupAt(output, i) ELSE 0
    IN  IF \A i \in 1..Len(output) : at(i) = 0 THEN NULL
        ELSE IF \E i \in 1..Len(output) :
                    /\ at(i) # 0
                    /\ \A j \in 1..(i - 1) : at(j) = 0
                    /\ output[at(i)] = "APPROVED"
             THEN "approved"
             ELSE "needs_work"

\* The last match decides, not the first.
parseVerdict_LastMatch(output) ==
    IF \A i \in 1..Len(output) : VerdictGroupAt(output, i) = 0 THEN NULL
    ELSE IF \E i \in 1..Len(output) :
                /\ VerdictGroupAt(output, i) # 0
                /\ \A j \in (i + 1)..Len(output) : VerdictGroupAt(output, j) = 0
                /\ ToUpperCase(output[VerdictGroupAt(output, i)]) = "APPROVED"
         THEN "approved"
         ELSE "needs_work"

\* match[1].toUpperCase() === "APPROVED" ? "approved" : "needs_work", null without a match
parseVerdict(output) ==
    IF \A i \in 1..Len(output) : VerdictGroupAt(output, i) = 0 THEN NULL
    ELSE IF \E i \in 1..Len(output) :
                /\ IsFirstMatch(output, i)
                /\ ToUpperCase(output[VerdictGroupAt(output, i)]) = "APPROVED"
         THEN "approved"
         ELSE "needs_work"

(***************************************************************************)
(* Prompt builders                                                         *)
(***************************************************************************)
\* new Date(createdAt).toLocaleDateString(): the rendering depends on the host's locale.
FormatDate(createdAt, loc) ==
    IF createdAt = "" THEN "Invalid Date"
    ELSE IF loc = "en-US" THEN "1/2/2026"
    ELSE "2.1.2026"

\* Number.prototype.toString in a template literal
NumStr(n) == CASE n = 0 -> "0" [] n = 1 -> "1" [] n = 2 -> "2" [] n = 3 -> "3"
               [] n = 4 -> "4" [] OTHER -> "n"

RECURSIVE CommentsSection(_, _)
CommentsSection(cs, loc) ==
    IF cs = <<>> THEN <<>>
    ELSE <<"**", Head(cs).author, "**", " ", "(", FormatDate(Head(cs).createdAt, loc), ")", ":",
           "\n">> \o Head(cs).body
         \o (IF Tail(cs) = <<>> THEN <<>> ELSE <<"\n", "\n">> \o CommentsSection(Tail(cs), loc))

Description(t) == IF t.description # <<>> THEN t.description ELSE <<"(No description)">>

\* No "None" for an empty comment list: the section is left empty.
buildScoutPrompt_NoFallback(t, comments, loc) ==
    <<"Investigate the codebase for Linear ticket", " ">> \o t.identifier \o <<":", " ", t.title,
      "\n", "## Ticket Description", "\n">> \o Description(t)
    \o <<"\n", "## Existing Comments", "\n">>
    \o CommentsSection(comments, loc)
    \o <<"\n", "Find all code relevant to this ticket.">>

buildScoutPrompt(t, comments, loc) ==
    <<"Investigate the codebase for Linear ticket", " ">> \o t.identifier \o <<":", " ", t.title,
      "\n", "## Ticket Description", "\n">> \o Description(t)
    \o <<"\n", "## Existing Comments", "\n">>
    \o (IF Len(comments) > 0 THEN CommentsSection(comments, loc) ELSE <<"None">>)
    \o <<"\n", "Find all code relevant to this ticket.">>

buildPlannerPrompt(t, scoutOut) ==
    <<"Create an implementation plan for Linear ticket", " ">> \o t.identifier
    \o <<":", " ", t.title, "\n", "## Ticket Description", "\n">> \o Description(t)
    \o <<"\n", "## Scout Findings", "\n">> \o scoutOut
    \o <<"\n", "Create a concrete, step-by-step plan.">>

\* The fix prompt with its two sections filled the wrong way round.
buildWorkerPrompt_SectionsSwapped(t, plan, iter, feedback) ==
    IF iter = 1
    THEN <<"Implement Linear ticket", " ">> \o t.identifier \o <<":", " ", t.title,
           "\n", "## Plan", "\n">> \o plan \o <<"\n", "Execute all steps.">>
    ELSE <<"Fix issues for Linear ticket", " ">> \o t.identifier \o <<":", " ", t.title,
           "\n", "## Original Plan", "\n">>
         \o (IF feedback = NULL THEN <<"undefined">> ELSE feedback)
         \o <<"\n", "## Reviewer Feedback", "\n">> \o plan
         \o <<"\n", "Address all critical and warning items from the reviewer.">>

\* The first-iteration test off by one: if (iteration <= 2)
buildWorkerPrompt_FirstTwo(t, plan, iter, feedback) ==
    IF iter <= 2
    THEN <<"Implement Linear ticket", " ">> \o t.identifier \o <<":", " ", t.title,
           "\n", "## Plan", "\n">> \o plan \o <<"\n", "Execute all steps.">>
    ELSE <<"Fix issues for Linear ticket", " ">> \o t.identifier \o <<":", " ", t.title,
           "\n", "## Original Plan", "\n">> \o plan
         \o <<"\n", "## Reviewer Feedback", "\n">>
         \o (IF feedback = NULL THEN <<"undefined">> ELSE feedback)
         \o <<"\n", "Address all critical and warning items from the reviewer.">>

\* feedback is NULL when the caller passes undefined.
buildWorkerPrompt(t, plan, iter, feedback) ==
    IF iter = 1
    THEN <<"Implement Linear ticket", " ">> \o t.identifier \o <<":", " ", t.title,
           "\n", "## Plan", "\n">> \o plan \o <<"\n", "Execute all steps.">>
    ELSE <<"Fix issues for Linear ticket", " ">> \o t.identifier \o <<":", " ", t.title,
           "\n", "## Original Plan", "\n">> \o plan
         \o <<"\n", "## Reviewer Feedback", "\n">>
         \o (IF feedback = NULL THEN <<"undefined">> ELSE feedback)
         \o <<"\n", "Address all critical and warning items from the reviewer.">>

buildReviewerPrompt(t, plan, workerOutput, iter) ==
    <<"Review implementation for Linear ticket", " ">> \o t.identifier
    \o <<":", " ", t.title, " ", "(", "iteration", " ", NumStr(iter), "/", NumStr(MAX_ITERATIONS), ")",
         "\n", "## Plan", "\n">> \o plan
    \o <<"\n", "## Worker Output", "\n">> \o workerOutput
    \o <<"\n", "End your response with exactly ONE of:", "\n",
         "**", "VERDICT", ":", " ", "APPROVED", "**", "\n",
         "**", "VERDICT", ":", " ", "NEEDS_WORK", "**">>

(***************************************************************************)
(* External calls, as the entries of effects                               *)
(***************************************************************************)
Eff(kind, what, n, arg, text) ==
    [kind |-> kind, what |-> what, n |-> n, arg |-> arg, text |-> text]

\* ctx.ui.notify(message, level)
Notify(what, level) == Eff("notify", what, 0, level, <<>>)

\* pi.sendMessage({customType, content, ...})
Message(customType, n, arg) == Eff("message", customType, n, arg, <<>>)

\* postComment(ticketId, body, ticket.id)
Post(doc, n, arg, text) == Eff("post", doc, n, arg, text)

\* runSingleAgent(cwd, agents, role, prompt, undefined, step, ...)
RunAgent(role, n, prompt) == Eff("agent", role, n, "", prompt)

\* await ctx.waitForIdle?.(), fetchTicket(ticketId), fetchComments(ticketId)
Call(what) == Eff("call", what, 0, "", <<>>)

\* JavaScript truthiness of a string | null
Truthy(x) == x # NULL /\ x # ""

\* The reviewers are counted as iterations too.
Iterations_CountsReviewers(ph) ==
    Cardinality({i \in 1..Len(ph) : ph[i].agent \in {"worker", "reviewer"}})

Iterations(ph) == Cardinality({i \in 1..Len(ph) : ph[i].agent = "worker"})

\* A missing verdict is rendered like a needs_work verdict.
SummaryStatus_NullAsNeedsWork(verdict) ==
    IF verdict = "approved" THEN "Approved" ELSE "Needs Work"

\* The status of formatSummary: statusText without the iteration count.
SummaryStatus(verdict) ==
    IF verdict = "approved" THEN "Approved"
    ELSE IF verdict = "needs_work" THEN "Needs Work"
    ELSE "Failed"

formatSummary(t, ph, verdict, iters) == Post("summary", iters, SummaryStatus(verdict), <<>>)

formatErrorComment(phase, n) == Post("error", n, phase, <<>>)

formatPartialSummary(t, ph) == Post("partial", Len(ph), "", <<>>)

\* The verdictEmoji of formatReviewComment.
ReviewEmoji(output) == IF parseVerdict(output) = "approved" THEN "check" ELSE "warning"

(***************************************************************************)
(* The environment: what the awaited calls can return                      *)
(***************************************************************************)
ArgSet == { <<>>, <<" ">>, <<"E", "N", "G", "4", "2">>, <<" ", "E", "N", "G", "-", "4", "2">> }

Locales == {"en-US", "de-DE"}

\* fetchTicket: resolves with the ticket, or rejects (no API key, not found, request error).
FetchTicketOutcomes == {"ok", "nokey", "notfound", "error"}

\* Only a ticket that is not found rejects; the other failures pass for an answer.
FetchTicketThrows_NotFoundOnly(outcome) == outcome = "notfound"

\* fetchTicket rejects for every outcome but "ok"; the handler's catch clause sees it.
FetchTicketThrows(outcome) == outcome # "ok"

TicketFor(id) == [identifier |-> id, title |-> "Title", description |-> <<>>]

\* The comments stored on the ticket at the provider.
CommentResults ==
    { <<>>, <<[author |-> "ann", createdAt |-> "2026-01-02", body |-> <<"see", " ", "tests">>]>> }

\* How a call of fetchComments can go: answered, no API key, or a failed request.
FetchCommentsOutcomes == {"ok", "nokey", "error"}

\* A failed call is modelled on a ticket that has comments, where the failure loses them.
FetchCommentsResults ==
    {res \in [outcome : FetchCommentsOutcomes, stored : CommentResults] :
        res.outcome # "ok" => res.stored # <<>>}

\* fetchComments resolves with the stored comments, and with [] when there is no API key
\* or when the request fails (its catch clause returns []).
fetchComments(outcome, stored) == IF outcome = "ok" THEN stored ELSE <<>>

AgentSets == { REQUIRED_AGENTS, REQUIRED_AGENTS \ {"reviewer"}, {} }

RevApproved == <<"LGTM", "\n", "**", "VERDICT", ":", " ", "APPROVED", "**">>
RevNeedsWork == <<"fix", " ", "tests", "\n", "**", "VERDICT", ":", " ", "NEEDS_WORK", "**">>
RevNoMarker == <<"LGTM", " ", "done">>
RevTwoMarkers == <<"VERDICT", ":", " ", "NEEDS_WORK", "\n", "verdict", ":", "approved">>
RevApprovedFirst == <<"Verdict", ":", "APPROVED", "\n", "VERDICT", ":", " ", "NEEDS_WORK">>

\* getFinalOutput(result.messages) of a step that exits 0.
Outputs(role) ==
    CASE role = "scout" -> { <<"found", " ", "A">>, <<"found", " ", "B">> }
      [] role = "planner" -> { <<"plan", " ", "A">>, <<"plan", " ", "B">> }
      [] role = "worker" -> { <<"w1">>, <<"w2">> }
      [] role = "reviewer" ->
            { RevApproved, RevNeedsWork, RevNoMarker, RevTwoMarkers, RevApprovedFirst }

\* getFinalOutput(result.messages) of a step that exits nonzero (partial output).
FailedOutputs(role) ==
    CASE role = "reviewer" -> { <<>>, RevApproved }
      [] OTHER -> { <<>> }

\* What await runSingleAgent(...) yields: a SingleResult, or a rejection with a message.
AgentResults(role) ==
    [threw : {FALSE}, exitCode : {0}, output : Outputs(role), message : {""}]
    \cup [threw : {FALSE}, exitCode : {1}, output : FailedOutputs(role), message : {""}]
    \cup [threw : {TRUE}, exitCode : {0}, output : {<<>>}, message : {"", "boom"}]

\* The record's name without its iteration: "worker", not `worker-${iteration}`.
PhaseResult_WithoutIteration(role, n, r) ==
    [agent |-> role, iter |-> 0, output |-> r.output, exitCode |-> r.exitCode]

PhaseResult(role, n, r) ==
    [agent |-> role, iter |-> n, output |-> r.output, exitCode |-> r.exitCode]

(***************************************************************************)
(* A repeated invocation of the command.  Invocation 1 records on the tape *)
(* what the ticket provider, the agent discovery and the agent steps gave  *)
(* it; invocation 2 is given the same again, and only its Progress Sink    *)
(* outcomes are free.                                                      *)
(***************************************************************************)
NoTape == [ticket |-> "pending",
           comments |-> [outcome |-> "pending", stored |-> <<>>],
           agents |-> {},
           steps |-> <<>>,
           sink |-> "any"]

\* What a postComment returns: true or false.  Where a run is the reference of a
\* comparison (sink "up"), every post of invocation 1 succeeds.
SinkResults == IF runNo = 1 /\ tape.sink = "up" THEN {TRUE} ELSE BOOLEAN

\* No run is suspended; no function is called on its own.
NoRunParked == [pc |-> "none"]

NoCall == [fn |-> "none"]

NoRun == [agentSteps |-> <<>>, phases |-> <<>>, finalVerdict |-> NULL, details |-> NoDetails,
          uiStatus |-> "", notices |-> <<>>]

Replay(field, S) == IF runNo = 1 THEN S ELSE {x \in S : x = tape[field]}

Record(field, v) == IF runNo = 1 THEN [tape EXCEPT ![field] = v] ELSE tape

\* The result of the agent step that is returning: any in invocation 1, the recorded one in
\* invocation 2 (one result per phase record; a step that throws is the last of its run).
StepResults(role) ==
    IF runNo = 1 THEN AgentResults(role)
    ELSE {r \in AgentResults(role) :
             Len(phases) < Len(tape.steps) /\ r = tape.steps[Len(phases) + 1]}

RecordStep(r) == IF runNo = 1 THEN [tape EXCEPT !.steps = Append(@, r)] ELSE tape

(***************************************************************************)
(* The handler of /assemble                                                *)
(***************************************************************************)
Init ==
    /\ pc = "start"
    /\ args \in ArgSet
    /\ locale \in Locales
    /\ ticketId = <<>>
    /\ ticket = NoTicket
    /\ existingComments = <<>>
    /\ agents = {}
    /\ phases = <<>>
    /\ finalVerdict = NULL
    /\ lastWorkerOutput = <<>>
    /\ lastReviewerFeedback = <<>>
    /\ fatalError = NULL
    /\ partialSummaryPosted = FALSE
    /\ scoutOutput = <<>>
    /\ planOutput = <<>>
    /\ iteration = 0
    /\ uiStatus = ""
    /\ effects = <<>>
    /\ details = NoDetails
    /\ postResult = TRUE
    /\ ticketFetch = "pending"
    /\ commentsFetch = "pending"
    /\ runNo = 1
    /\ tape = NoTape
    /\ firstRun = NoRun
    /\ parked = NoRunParked
    /\ io = NoCall

runState == <<phases, finalVerdict, lastWorkerOutput, lastReviewerFeedback, fatalError,
              partialSummaryPosted, scoutOutput, planOutput, iteration>>

context == <<args, locale, ticketId, ticket, existingComments, agents, ticketFetch,
             commentsFetch, runNo, firstRun, parked, io>>

\* const failed = fatalError || partialSummaryPosted
Failed(fe, psp) == Truthy(fe) \/ psp

\* The statusText of the final message, without its reason.
StatusText(fv, fe, psp) ==
    IF Failed(fe, psp) THEN "Assembly failed"
    ELSE IF fv = "approved" THEN "Assembly complete - Approved"
    ELSE IF fv = "needs_work" THEN "Assembly complete - Needs work"
    ELSE "Assembly failed"

\* status: failed ? "failed" : "complete", without the check of the verdict.
FinalDetails_VerdictBlind(ph, fv, fe, psp) ==
    [status |-> IF Failed(fe, psp) THEN "failed" ELSE "complete",
     verdict |-> fv,
     iterations |-> Iterations(ph),
     statusText |-> StatusText(fv, fe, psp),
     reason |-> IF Failed(fe, psp) /\ Truthy(fe) THEN fe ELSE ""]

FinalDetails(ph, fv, fe, psp) ==
    [status |-> IF Failed(fe, psp) THEN "failed" ELSE IF fv # NULL THEN "complete" ELSE "failed",
     verdict |-> fv,
     iterations |-> Iterations(ph),
     statusText |-> StatusText(fv, fe, psp),
     reason |-> IF Failed(fe, psp) /\ Truthy(fe) THEN fe ELSE ""]

\* ctx.ui.notify(`Assembly ${...}`, finalVerdict === "approved" ? "info" : "warning")
FinalNotify(fv) ==
    Notify(IF fv = "approved" THEN "Assembly approved"
           ELSE IF fv = "needs_work" THEN "Assembly completed with feedback"
           ELSE "Assembly finished",
           IF fv = "approved" THEN "info" ELSE "warning")

\* pi.sendMessage({customType: "assemble-complete", ...}) and the final ctx.ui.notify.
FinalEffects(ph, fv, fe, psp) ==
    << Message("assemble-complete", Iterations(ph), StatusText(fv, fe, psp)), FinalNotify(fv) >>

\* The final summary's condition inverted.
PostsFinalSummary_Inverted(psp) == psp

\* The final summary is posted whether or not a partial summary was.
PostsFinalSummary_Always(psp) == TRUE

\* if (!partialSummaryPosted) await postComment(ticketId, summary, ticket.id)
PostsFinalSummary(psp) == ~psp

\* The code after the try/catch, up to its next await or to the handler's end, with the
\* run state as the try block or the catch clause left it.
Reporting(ph, fv, fe, psp, eff) ==
    /\ uiStatus' = ""
    /\ IF PostsFinalSummary(psp)
       THEN /\ pc' = "postSummary"
            /\ effects' = Append(eff, formatSummary(ticket, ph, fv, Iterations(ph)))
            /\ details' = details
       ELSE /\ pc' = "done"
            /\ effects' = eff \o FinalEffects(ph, fv, fe, psp)
            /\ details' = FinalDetails(ph, fv, fe, psp)

\* handler(args, ctx) up to its first await.
Start ==
    /\ pc = "start"
    /\ ticketId' = Trim(args)
    /\ IF Trim(args) = <<>>
       THEN /\ effects' = Append(effects, Notify("Usage", "error"))
            /\ pc' = "done"
       ELSE IF ~validateTicketId(Trim(args))
       THEN /\ effects' = Append(effects, Notify("Invalid ticket ID", "error"))
            /\ pc' = "done"
       ELSE /\ effects' = Append(effects, Call("waitForIdle"))
            /\ pc' = "waitForIdle"
    /\ UNCHANGED <<args, locale, ticket, existingComments, agents, runState, uiStatus,
                   details, postResult, ticketFetch, commentsFetch, runNo, tape, firstRun,
                   parked, io>>

WaitForIdleReturns ==
    /\ pc = "waitForIdle"
    /\ effects' = effects \o <<Notify("Starting assembly", "info"), Call("fetchTicket")>>
    /\ pc' = "fetchTicket"
    /\ UNCHANGED <<context, tape, runState, uiStatus, details, postResult>>

FetchTicketReturns ==
    /\ pc = "fetchTicket"
    /\ \E outcome \in Replay("ticket", FetchTicketOutcomes) :
        /\ ticketFetch' = outcome
        /\ tape' = Record("ticket", outcome)
        /\ IF FetchTicketThrows(outcome)
           THEN /\ effects' = Append(effects, Notify("Failed to fetch ticket", "error"))
                /\ pc' = "done"
                /\ ticket' = ticket
           ELSE /\ ticket' = TicketFor(ticketId)
                /\ effects' = effects \o <<Message("assemble-ticket", 0, ""),
                                          Call("fetchComments")>>
                /\ pc' = "fetchComments"
    /\ UNCHANGED <<args, locale, ticketId, existingComments, agents, runState, uiStatus,
                   details, postResult, commentsFetch, runNo, firstRun, parked, io>>

FetchCommentsReturns ==
    /\ pc = "fetchComments"
    /\ \E res \in Replay("comments", FetchCommentsResults) :
        /\ commentsFetch' = res.outcome
        /\ tape' = Record("comments", res)
        /\ existingComments' = fetchComments(res.outcome, res.stored)
    /\ effects' = Append(effects, Post("started", 0, "", <<>>))
    /\ pc' = "postStart"
    /\ UNCHANGED <<args, locale, ticketId, ticket, agents, runState, uiStatus, details,
                   postResult, ticketFetch, runNo, firstRun, parked, io>>

\* Only the scout is looked for among the discovered agents.
missingAgents_ScoutOnly(found) == {"scout"} \ found

\* REQUIRED_AGENTS.filter(name => !agents.find(a => a.name === name))
missingAgents(found) == REQUIRED_AGENTS \ found

\* The "Assembly Started" post returns: discover the agents, check them, start the scout.
PostStartReturns ==
    /\ pc = "postStart"
    /\ postResult' \in SinkResults
    /\ \E found \in Replay("agents", AgentSets) :
        /\ agents' = found
        /\ tape' = Record("agents", found)
        /\ IF missingAgents(found) # {}
           THEN /\ effects' = Append(effects, Notify("Missing agents", "error"))
                /\ pc' = "done"
                /\ uiStatus' = uiStatus
           ELSE /\ uiStatus' = "Running scout..."
                /\ effects' = Append(effects,
                       RunAgent("scout", 0, buildScoutPrompt(ticket, existingComments, locale)))
                /\ pc' = "scout"
    /\ UNCHANGED <<args, locale, ticketId, ticket, existingComments, runState, details,
                   ticketFetch, commentsFetch, runNo, firstRun, parked, io>>

\* Only a negative exit status counts as a failure.
PhaseFailed_NegativeOnly(r) == r.exitCode < 0

\* No exit status counts as a failure: every phase is reported as completed.
PhaseFailed_Never(r) == FALSE

\* if (result.exitCode !== 0)
PhaseFailed(r) == r.exitCode # 0

\* No catch clause: the rejection leaves the handler.
Catch_Propagates(message) ==
    /\ fatalError' = message
    /\ pc' = "done"
    /\ UNCHANGED <<uiStatus, effects, details>>

\* The catch clause: fatalError = error.message, then the code after the try/catch.
Catch(message) ==
    /\ fatalError' = message
    /\ Reporting(phases, finalVerdict, message, partialSummaryPosted, effects)

ScoutReturns ==
    /\ pc = "scout"
    /\ \E r \in StepResults("scout") :
        /\ tape' = RecordStep(r)
        /\ IF r.threw
           THEN /\ Catch(r.message)
                /\ UNCHANGED <<phases, scoutOutput>>
           ELSE /\ phases' = Append(phases, PhaseResult("scout", 0, r))
                /\ scoutOutput' = r.output
                /\ IF PhaseFailed(r)
                   THEN /\ effects' = Append(effects, formatErrorComment("Scout", 0))
                        /\ pc' = "postScoutError"
                   ELSE /\ effects' = effects \o <<Message("assemble-phase", 0, "Scout"),
                                                  Post("scout", 0, "", r.output)>>
                        /\ pc' = "postScout"
                /\ UNCHANGED <<fatalError, uiStatus, details>>
    /\ UNCHANGED <<context, finalVerdict, lastWorkerOutput, lastReviewerFeedback,
                   partialSummaryPosted, planOutput, iteration, postResult>>

\* throw new Error(`Scout failed: ${errorMsg}`), caught by the handler's catch clause.
PostScoutErrorReturns ==
    /\ pc = "postScoutError"
    /\ postResult' \in SinkResults
    /\ Catch("Scout failed")
    /\ UNCHANGED <<context, tape, phases, finalVerdict, lastWorkerOutput, lastReviewerFeedback,
                   partialSummaryPosted, scoutOutput, planOutput, iteration>>

PostScoutReturns ==
    /\ pc = "postScout"
    /\ postResult' \in SinkResults
    /\ uiStatus' = "Running planner..."
    /\ effects' = Append(effects, RunAgent("planner", 0, buildPlannerPrompt(ticket, scoutOutput)))
    /\ pc' = "planner"
    /\ UNCHANGED <<context, tape, runState, details>>

PlannerReturns ==
    /\ pc = "planner"
    /\ \E r \in StepResults("planner") :
        /\ tape' = RecordStep(r)
        /\ IF r.threw
           THEN /\ Catch(r.message)
                /\ UNCHANGED <<phases, planOutput>>
           ELSE /\ planOutput' = r.output
                /\ phases' = Append(phases, PhaseResult("planner", 0, r))
                /\ IF PhaseFailed(r)
                   THEN /\ effects' = Append(effects, formatErrorComment("Planner", 0))
                        /\ pc' = "postPlannerError"
                   ELSE /\ effects' = effects \o <<Message("assemble-phase", 0, "Planner"),
                                                  Post("planner", 0, "", r.output)>>
                        /\ pc' = "postPlanner"
                /\ UNCHANGED <<fatalError, uiStatus, details>>
    /\ UNCHANGED <<context, finalVerdict, lastWorkerOutput, lastReviewerFeedback,
                   partialSummaryPosted, scoutOutput, iteration, postResult>>

PostPlannerErrorReturns ==
    /\ pc = "postPlannerError"
    /\ postResult' \in SinkResults
    /\ Catch("Planner failed")
    /\ UNCHANGED <<context, tape, phases, finalVerdict, lastWorkerOutput, lastReviewerFeedback,
                   partialSummaryPosted, scoutOutput, planOutput, iteration>>

\* The top of the loop body for iteration iter: set the status and start the worker.
\* The worker is given the feedback that was held before this review was read.
StartWorker_StaleFeedback(iter, feedbackText) ==
    /\ iteration' = iter
    /\ uiStatus' = "Running worker..."
    /\ effects' = Append(effects,
           RunAgent("worker", iter,
                    buildWorkerPrompt(ticket, planOutput, iter,
                                      IF iter > 1 THEN lastReviewerFeedback ELSE NULL)))
    /\ pc' = "worker"

StartWorker(iter, feedbackText) ==
    /\ iteration' = iter
    /\ uiStatus' = "Running worker..."
    /\ effects' = Append(effects,
           RunAgent("worker", iter,
                    buildWorkerPrompt(ticket, planOutput, iter,
                                      IF iter > 1 THEN feedbackText ELSE NULL)))
    /\ pc' = "worker"

\* The loop condition with its comparison reversed.
LoopCondition_Reversed(iter) == iter >= MAX_ITERATIONS

\* for (let iteration = 1; iteration <= MAX_ITERATIONS; iteration++)
LoopCondition(iter) == iter <= MAX_ITERATIONS

\* The planner's post returns: the loop is entered with iteration = 1.
PostPlannerReturns ==
    /\ pc = "postPlanner"
    /\ postResult' \in SinkResults
    /\ IF LoopCondition(1)
       THEN /\ StartWorker(1, lastReviewerFeedback)
            /\ UNCHANGED details
       ELSE /\ iteration' = 1
            /\ Reporting(phases, finalVerdict, fatalError, partialSummaryPosted, effects)
    /\ UNCHANGED <<context, tape, phases, finalVerdict, lastWorkerOutput, lastReviewerFeedback,
                   fatalError, partialSummaryPosted, scoutOutput, planOutput>>

\* The worker's progress document is posted without await: the reviewer is started in the
\* same turn, while the post is still under way.
WorkerReturns_PostNotAwaited ==
    /\ pc = "worker"
    /\ \E r \in StepResults("worker") :
        /\ tape' = RecordStep(r)
        /\ IF r.threw
           THEN /\ Catch(r.message)
                /\ UNCHANGED <<phases, lastWorkerOutput>>
           ELSE /\ lastWorkerOutput' = r.output
                /\ phases' = Append(phases, PhaseResult("worker", iteration, r))
                /\ IF PhaseFailed(r)
                   THEN /\ effects' = Append(effects, formatErrorComment("Worker", iteration))
                        /\ pc' = "postWorkerError"
                        /\ uiStatus' = uiStatus
                   ELSE /\ effects' = effects \o
                               <<Message("assemble-phase", iteration, "Worker"),
                                 Post("worker", iteration, "", r.output),
                                 RunAgent("reviewer", iteration,
                                     buildReviewerPrompt(ticket, planOutput, r.output, iteration))>>
                        /\ uiStatus' = "Running reviewer..."
                        /\ pc' = "reviewer"
                /\ UNCHANGED <<fatalError, details>>
    /\ UNCHANGED <<context, finalVerdict, lastReviewerFeedback, partialSummaryPosted,
                   scoutOutput, planOutput, iteration, postResult>>

WorkerReturns ==
    /\ pc = "worker"
    /\ \E r \in StepResults("worker") :
        /\ tape' = RecordStep(r)
        /\ IF r.threw
           THEN /\ Catch(r.message)
                /\ UNCHANGED <<phases, lastWorkerOutput>>
           ELSE /\ lastWorkerOutput' = r.output
                /\ phases' = Append(phases, PhaseResult("worker", iteration, r))
                /\ IF PhaseFailed(r)
                   THEN /\ effects' = Append(effects, formatErrorComment("Worker", iteration))
                        /\ pc' = "postWorkerError"
                   ELSE /\ effects' = effects \o <<Message("assemble-phase", iteration, "Worker"),
                                                  Post("worker", iteration, "", r.output)>>
                        /\ pc' = "postWorker"
                /\ UNCHANGED <<fatalError, uiStatus, details>>
    /\ UNCHANGED <<context, finalVerdict, lastReviewerFeedback, partialSummaryPosted,
                   scoutOutput, planOutput, iteration, postResult>>

PostWorkerErrorReturns ==
    /\ pc = "postWorkerError"
    /\ postResult' \in SinkResults
    /\ effects' = Append(effects, formatPartialSummary(ticket, phases))
    /\ pc' = "postWorkerPartial"
    /\ UNCHANGED <<context, tape, runState, uiStatus, details>>

\* The flag takes the value that the post of the partial summary returned.
PartialPosted_FromResult(posted) == posted

\* partialSummaryPosted = true, whatever the awaited postComment returned.
PartialPosted(posted) == TRUE

\* partialSummaryPosted = true, the 'assemble-error' message, break: the loop is left.
PostWorkerPartialReturns ==
    /\ pc = "postWorkerPartial"
    /\ postResult' \in SinkResults
    /\ partialSummaryPosted' = PartialPosted(postResult')
    /\ Reporting(phases, finalVerdict, fatalError, partialSummaryPosted',
                 Append(effects, Message("assemble-error", iteration, "Worker")))
    /\ UNCHANGED <<context, tape, phases, finalVerdict, lastWorkerOutput, lastReviewerFeedback,
                   fatalError, scoutOutput, planOutput, iteration>>

PostWorkerReturns ==
    /\ pc = "postWorker"
    /\ postResult' \in SinkResults
    /\ uiStatus' = "Running reviewer..."
    /\ effects' = Append(effects,
           RunAgent("reviewer", iteration,
                    buildReviewerPrompt(ticket, planOutput, lastWorkerOutput, iteration)))
    /\ pc' = "reviewer"
    /\ UNCHANGED <<context, tape, runState, details>>

ReviewerReturns ==
    /\ pc = "reviewer"
    /\ \E r \in StepResults("reviewer") :
        /\ tape' = RecordStep(r)
        /\ IF r.threw
           THEN /\ Catch(r.message)
                /\ UNCHANGED phases
           ELSE /\ phases' = Append(phases, PhaseResult("reviewer", iteration, r))
                /\ IF PhaseFailed(r)
                   THEN /\ effects' = Append(effects, formatErrorComment("Reviewer", iteration))
                        /\ pc' = "postReviewerError"
                   ELSE /\ effects' = effects \o <<Message("assemble-phase", iteration, "Review"),
                                                  Post("reviewer", iteration, ReviewEmoji(r.output),
                                                       r.output)>>
                        /\ pc' = "postReviewer"
                /\ UNCHANGED <<fatalError, uiStatus, details>>
    /\ UNCHANGED <<context, finalVerdict, lastWorkerOutput, lastReviewerFeedback,
                   partialSummaryPosted, scoutOutput, planOutput, iteration, postResult>>

PostReviewerErrorReturns ==
    /\ pc = "postReviewerError"
    /\ postResult' \in SinkResults
    /\ effects' = Append(effects, formatPartialSummary(ticket, phases))
    /\ pc' = "postReviewerPartial"
    /\ UNCHANGED <<context, tape, runState, uiStatus, details>>

PostReviewerPartialReturns ==
    /\ pc = "postReviewerPartial"
    /\ postResult' \in SinkResults
    /\ partialSummaryPosted' = PartialPosted(postResult')
    /\ Reporting(phases, finalVerdict, fatalError, partialSummaryPosted',
                 Append(effects, Message("assemble-error", iteration, "Reviewer")))
    /\ UNCHANGED <<context, tape, phases, finalVerdict, lastWorkerOutput, lastReviewerFeedback,
                   fatalError, scoutOutput, planOutput, iteration>>

\* The loop also ends on a needs_work verdict: it ends on any parsed verdict.
LoopEnds_AnyVerdict(verdict, iter) == verdict # NULL \/ iter >= MAX_ITERATIONS

\* The loop ignores the approval and always runs to the cap.
LoopEnds_CapOnly(verdict, iter) == iter >= MAX_ITERATIONS

\* if (finalVerdict === "approved") break; if (iteration >= MAX_ITERATIONS) break;
LoopEnds(verdict, iter) == verdict = "approved" \/ iter >= MAX_ITERATIONS

\* const reviewerOutput: the output pushed as the last phase record.
reviewerOutput == phases[Len(phases)].output

\* The verdict decision.
PostReviewerReturns ==
    /\ pc = "postReviewer"
    /\ postResult' \in SinkResults
    /\ finalVerdict' = parseVerdict(reviewerOutput)
    /\ lastReviewerFeedback' = reviewerOutput
    /\ IF LoopEnds(finalVerdict', iteration)
       THEN /\ Reporting(phases, finalVerdict', fatalError, partialSummaryPosted, effects)
            /\ UNCHANGED iteration
       ELSE /\ StartWorker(iteration + 1, reviewerOutput)
            /\ UNCHANGED details
    /\ UNCHANGED <<context, tape, phases, lastWorkerOutput, fatalError, partialSummaryPosted,
                   scoutOutput, planOutput>>

\* The final summary's post returns: the final message and the final notification.
PostSummaryReturns ==
    /\ pc = "postSummary"
    /\ postResult' \in SinkResults
    /\ effects' = effects \o FinalEffects(phases, finalVerdict, fatalError, partialSummaryPosted)
    /\ details' = FinalDetails(phases, finalVerdict, fatalError, partialSummaryPosted)
    /\ pc' = "done"
    /\ UNCHANGED <<context, tape, runState, uiStatus>>

Next ==
    \/ Start
    \/ WaitForIdleReturns
    \/ FetchTicketReturns
    \/ FetchCommentsReturns
    \/ PostStartReturns
    \/ ScoutReturns
    \/ PostScoutErrorReturns
    \/ PostScoutReturns
    \/ PlannerReturns
    \/ PostPlannerErrorReturns
    \/ PostPlannerReturns
    \/ WorkerReturns
    \/ PostWorkerErrorReturns
    \/ PostWorkerPartialReturns
    \/ PostWorkerReturns
    \/ ReviewerReturns
    \/ PostReviewerErrorReturns
    \/ PostReviewerPartialReturns
    \/ PostReviewerReturns
    \/ PostSummaryReturns

Spec == Init /\ [][Next]_vars

(***************************************************************************)
(* validateTicketId on its own: the input is any short string, and the one *)
(* step applies the function to it as it is, untrimmed.                    *)
(***************************************************************************)
MaxIdLen == 4

IdAlphabet == {"E", "k", "4", "2", "-", " ", "_"}

\* Every string of at most MaxIdLen characters, and the identifiers ENG-123 and k20-4.
IdStrings ==
    UNION {[1..n -> IdAlphabet] : n \in 0..MaxIdLen}
        \cup { <<"E", "N", "G", "-", "4", "2", "7">>, <<"k", "2", "7", "-", "4">> }

InitValidate ==
    /\ pc = "validate"
    /\ args \in IdStrings
    /\ locale = "en-US"
    /\ ticketId = <<>>
    /\ ticket = NoTicket
    /\ existingComments = <<>>
    /\ agents = {}
    /\ phases = <<>>
    /\ finalVerdict = NULL
    /\ lastWorkerOutput = <<>>
    /\ lastReviewerFeedback = <<>>
    /\ fatalError = NULL
    /\ partialSummaryPosted = FALSE
    /\ scoutOutput = <<>>
    /\ planOutput = <<>>
    /\ iteration = 0
    /\ uiStatus = ""
    /\ effects = <<>>
    /\ details = NoDetails
    /\ postResult = TRUE
    /\ ticketFetch = "pending"
    /\ commentsFetch = "pending"
    /\ runNo = 1
    /\ tape = NoTape
    /\ firstRun = NoRun
    /\ parked = NoRunParked
    /\ io = NoCall

\* validateTicketId(id) returns true or false.
Validate ==
    /\ pc = "validate"
    /\ pc' = IF validateTicketId(args) THEN "valid" ELSE "invalid"
    /\ UNCHANGED <<context, tape, runState, uiStatus, effects, details, postResult>>

SpecValidate == InitValidate /\ [][Validate]_vars

(***************************************************************************)
(* parseVerdict on its own: the input is any short text, a sequence of     *)
(* lexemes, and the one step applies the function to it.                   *)
(***************************************************************************)
MaxTextLen == 4

VerdictLexemes == {"VERDICT", "verdict", ":", " ", "APPROVED", "Approved", "NEEDS_WORK", "LGTM"}

\* Every text of at most MaxTextLen lexemes, and longer texts with two markers, with a marker
\* inside a longer word, and with a marker in mixed case.
VerdictTexts ==
    UNION {[1..n -> VerdictLexemes] : n \in 0..MaxTextLen}
        \cup { RevApproved, RevNeedsWork, RevNoMarker, RevTwoMarkers,
               <<"VERDICT", ":", " ", "APPROVED", "\n", "VERDICT", ":", " ", "NEEDS_WORK">>,
               <<"LGTM", " ", "Verdict", " ", ":", "\n", "Needs_Work", " ", "VERDICT", ":", "APPROVED">>,
               <<"LGTM", "VERDICT", ":", "APPROVED", " ", "verdict", ":", "needs_work">>,
               <<"VERDICT", ":", "APPROVED", "LGTM", " ", "verdict", ":", "needs_work">>,
               <<"VERDICT", " ", "APPROVED", " ", "Verdict", ":", "needs_work", ":", "APPROVED">> }

InitVerdict ==
    /\ pc = "parse"
    /\ lastReviewerFeedback \in VerdictTexts
    /\ args = <<>>
    /\ locale = "en-US"
    /\ ticketId = <<>>
    /\ ticket = NoTicket
    /\ existingComments = <<>>
    /\ agents = {}
    /\ phases = <<>>
    /\ finalVerdict = NULL
    /\ lastWorkerOutput = <<>>
    /\ fatalError = NULL
    /\ partialSummaryPosted = FALSE
    /\ scoutOutput = <<>>
    /\ planOutput = <<>>
    /\ iteration = 0
    /\ uiStatus = ""
    /\ effects = <<>>
    /\ details = NoDetails
    /\ postResult = TRUE
    /\ ticketFetch = "pending"
    /\ commentsFetch = "pending"
    /\ runNo = 1
    /\ tape = NoTape
    /\ firstRun = NoRun
    /\ parked = NoRunParked
    /\ io = NoCall

\* finalVerdict = parseVerdict(reviewerOutput), on the text held in lastReviewerFeedback.
ParseVerdict ==
    /\ pc = "parse"
    /\ finalVerdict' = parseVerdict(lastReviewerFeedback)
    /\ pc' = "parsed"
    /\ UNCHANGED <<context, tape, phases, lastWorkerOutput, lastReviewerFeedback, fatalError,
                   partialSummaryPosted, scoutOutput, planOutput, iteration, uiStatus, effects,
                   details, postResult>>

SpecVerdict == InitVerdict /\ [][ParseVerdict]_vars

(***************************************************************************)
(* The four prompt builders on their own.  The arguments are drawn from    *)
(* the texts of the model; the builders are called once on the host        *)
(* `locale`, and then once more with the same arguments on a host that may *)
(* have another locale.                                                    *)
(***************************************************************************)
MaxPromptIter == 3

InitPrompts ==
    /\ pc = "build"
    /\ args = <<"E", "N", "G", "-", "4", "2">>
    /\ ticketId = args
    /\ ticket = TicketFor(args)
    /\ existingComments \in CommentResults
    /\ scoutOutput \in Outputs("scout")
    /\ planOutput \in Outputs("planner")
    /\ lastWorkerOutput \in Outputs("worker")
    /\ lastReviewerFeedback \in Outputs("reviewer")
    /\ iteration \in 1..MaxPromptIter
    /\ locale \in Locales
    /\ agents = {}
    /\ phases = <<>>
    /\ finalVerdict = NULL
    /\ fatalError = NULL
    /\ partialSummaryPosted = FALSE
    /\ uiStatus = ""
    /\ effects = <<>>
    /\ details = NoDetails
    /\ postResult = TRUE
    /\ ticketFetch = "pending"
    /\ commentsFetch = "pending"
    /\ runNo = 1
    /\ tape = NoTape
    /\ firstRun = NoRun
    /\ parked = NoRunParked
    /\ io = NoCall

\* The four prompts for the arguments held in the state, built on a host with locale loc.
Prompts(loc) ==
    << RunAgent("scout", 0, buildScoutPrompt(ticket, existingComments, loc)),
       RunAgent("planner", 0, buildPlannerPrompt(ticket, scoutOutput)),
       RunAgent("worker", iteration,
                buildWorkerPrompt(ticket, planOutput, iteration, lastReviewerFeedback)),
       RunAgent("reviewer", iteration,
                buildReviewerPrompt(ticket, planOutput, lastWorkerOutput, iteration)) >>

BuildPrompts ==
    /\ pc = "build"
    /\ effects' = Prompts(locale)
    /\ pc' = "built"
    /\ UNCHANGED <<context, tape, runState, uiStatus, details, postResult>>

\* The same calls again, on a host of any locale.
BuildPromptsAgain ==
    /\ pc = "built"
    /\ \E loc \in Locales : effects' = effects \o Prompts(loc)
    /\ pc' = "rebuilt"
    /\ UNCHANGED <<context, tape, runState, uiStatus, details, postResult>>

NextPrompts == BuildPrompts \/ BuildPromptsAgain

SpecPrompts == InitPrompts /\ [][NextPrompts]_vars

(***************************************************************************)
(* postComment on its own, in the two versions of linear.ts.  A call is    *)
(* described by what its steps meet: whether an API key is found, whether  *)
(* the caller passed the issue id, whether the ticket id has a dash, and   *)
(* how the lookup request and the commentCreate request end.  A result is  *)
(* "true", "false" or "throw" (the promise rejects).                       *)
(***************************************************************************)
\* graphqlRequest throws when fetch rejects, when the response is not ok, and when the
\* response carries GraphQL errors.
GraphQLThrows == {"network", "http", "graphql"}

\* The lookup query: a thrown request, an issue node, or no node.
LookupOutcomes == GraphQLThrows \cup {"found", "empty"}

\* The commentCreate mutation: a thrown request, success true or false, or no such field.
MutationOutcomes == GraphQLThrows \cup {"success", "failure", "nofield"}

PostCalls ==
    [fn : {"postComment"}, hasKey : BOOLEAN, issueIdGiven : BOOLEAN, dash : BOOLEAN,
     lookup : LookupOutcomes, mutation : MutationOutcomes,
     result : {"pending"}, result003 : {"pending"}]

graphqlRequest(outcome) == IF outcome \in GraphQLThrows THEN "throw" ELSE outcome

\* parseIdentifier throws on a ticket id without a dash.
parseIdentifier(dash) == IF dash THEN "parsed" ELSE "throw"

\* let resolvedId = issueId; if (!resolvedId) { ... resolvedId = ...nodes?.[0]?.id }
ResolveId(c) ==
    IF c.issueIdGiven THEN "id"
    ELSE IF parseIdentifier(c.dash) = "throw" THEN "throw"
    ELSE IF graphqlRequest(c.lookup) = "throw" THEN "throw"
    ELSE IF c.lookup = "found" THEN "id"
    ELSE "none"

\* The try block of postComment: return result?.data?.commentCreate?.success === true
TryPost(c) ==
    IF ResolveId(c) = "throw" THEN "throw"
    ELSE IF ResolveId(c) = "none" THEN "false"
    ELSE IF graphqlRequest(c.mutation) = "throw" THEN "throw"
    ELSE IF c.mutation = "success" THEN "true"
    ELSE "false"

\* The try block of the older postComment: it warns when success is not set, and returns true.
TryPost003(c) ==
    IF ResolveId(c) = "throw" THEN "throw"
    ELSE IF ResolveId(c) = "none" THEN "false"
    ELSE IF graphqlRequest(c.mutation) = "throw" THEN "throw"
    ELSE "true"

\* No catch clause: what the try block throws leaves postComment.
CatchPost_Rethrows(r) == r

\* catch (err) { console.warn(...); return false; }
CatchPost(r) == IF r = "throw" THEN "false" ELSE r

\* postComment of the current linear.ts
postComment(c) == IF ~c.hasKey THEN "false" ELSE CatchPost(TryPost(c))

\* postComment of the older linear.ts
postComment003(c) == IF ~c.hasKey THEN "false" ELSE CatchPost(TryPost003(c))

InitPost ==
    /\ pc = "post"
    /\ io \in PostCalls
    /\ args = <<>>
    /\ locale = "en-US"
    /\ ticketId = <<>>
    /\ ticket = NoTicket
    /\ existingComments = <<>>
    /\ agents = {}
    /\ phases = <<>>
    /\ finalVerdict = NULL
    /\ lastWorkerOutput = <<>>
    /\ lastReviewerFeedback = <<>>
    /\ fatalError = NULL
    /\ partialSummaryPosted = FALSE
    /\ scoutOutput = <<>>
    /\ planOutput = <<>>
    /\ iteration = 0
    /\ uiStatus = ""
    /\ effects = <<>>
    /\ details = NoDetails
    /\ postResult = TRUE
    /\ ticketFetch = "pending"
    /\ commentsFetch = "pending"
    /\ runNo = 1
    /\ tape = NoTape
    /\ firstRun = NoRun
    /\ parked = NoRunParked

\* The call settles, in each version of the function.
PostCommentSettles ==
    /\ pc = "post"
    /\ io' = [io EXCEPT !.result = postComment(io), !.result003 = postComment003(io)]
    /\ pc' = "posted"
    /\ UNCHANGED <<args, locale, ticketId, ticket, existingComments, agents, ticketFetch,
                   commentsFetch, runNo, firstRun, parked, tape, runState, uiStatus, effects,
                   details, postResult>>

SpecPost == InitPost /\ [][PostCommentSettles]_vars

(***************************************************************************)
(* The prompt-driven /assemble command: it fetches the ticket and its      *)
(* comments, posts the "Assembly Started" comment and hands the pipeline   *)
(* to the model with one orchestration prompt.                             *)
(***************************************************************************)
\* pi.sendUserMessage(prompt)
SendUserMessage(prompt) == Eff("prompt", "assemble", 0, "", prompt)

buildAssemblePrompt(t, comments, loc) ==
    <<"Execute this implementation workflow for Linear ticket", " ">> \o t.identifier
    \o <<":", " ", t.title, "\n", "### Description", "\n">> \o Description(t)
    \o <<"\n", "### Existing Comments", "\n">>
    \o (IF Len(comments) > 0 THEN CommentsSection(comments, loc) ELSE <<"None">>)
    \o <<"\n", "## Instructions", "\n", "Follow this pipeline using the subagent tool.">>

\* The prompt is sent only when the started comment was posted.
AfterStartedComment_OnlyIfPosted(effs, posted, prompt) ==
    IF posted THEN Append(effs, SendUserMessage(prompt)) ELSE effs

\* await postComment(...) settles, its result is dropped, and the prompt is sent.
AfterStartedComment(effs, posted, prompt) == Append(effs, SendUserMessage(prompt))

CommandArgs ==
    ArgSet \cup { <<"E", "N", "G", "-", "4", "2">>, <<"k", "-", "7">>, <<"k", "-", "7", " ">>,
                  <<"4", "2", "-", "7">> }

InitCommand ==
    /\ pc = "assemble"
    /\ args \in CommandArgs
    /\ locale \in Locales
    /\ ticketId = <<>>
    /\ ticket = NoTicket
    /\ existingComments = <<>>
    /\ agents = {}
    /\ phases = <<>>
    /\ finalVerdict = NULL
    /\ lastWorkerOutput = <<>>
    /\ lastReviewerFeedback = <<>>
    /\ fatalError = NULL
    /\ partialSummaryPosted = FALSE
    /\ scoutOutput = <<>>
    /\ planOutput = <<>>
    /\ iteration = 0
    /\ uiStatus = ""
    /\ effects = <<>>
    /\ details = NoDetails
    /\ postResult = TRUE
    /\ ticketFetch = "pending"
    /\ commentsFetch = "pending"
    /\ runNo = 1
    /\ tape = NoTape
    /\ firstRun = NoRun
    /\ parked = NoRunParked
    /\ io = NoCall

CommandStart ==
    /\ pc = "assemble"
    /\ ticketId' = Trim(args)
    /\ IF Trim(args) = <<>>
       THEN /\ effects' = Append(effects, Notify("Usage", "error"))
            /\ pc' = "done"
       ELSE IF ~validateTicketId(Trim(args))
       THEN /\ effects' = Append(effects, Notify("Invalid ticket ID", "error"))
            /\ pc' = "done"
       ELSE /\ effects' = Append(effects, Call("waitForIdle"))
            /\ pc' = "assemble.waitForIdle"
    /\ UNCHANGED <<args, locale, ticket, existingComments, agents, runState, uiStatus,
                   details, postResult, ticketFetch, commentsFetch, runNo, tape, firstRun,
                   parked, io>>

CommandWaitForIdleReturns ==
    /\ pc = "assemble.waitForIdle"
    /\ effects' = Append(effects, Call("fetchTicket"))
    /\ pc' = "assemble.fetchTicket"
    /\ UNCHANGED <<context, tape, runState, uiStatus, details, postResult>>

CommandFetchTicketReturns ==
    /\ pc = "assemble.fetchTicket"
    /\ \E outcome \in FetchTicketOutcomes :
        /\ ticketFetch' = outcome
        /\ IF FetchTicketThrows(outcome)
           THEN /\ effects' = Append(effects, Notify("Failed to fetch ticket", "error"))
                /\ pc' = "done"
                /\ ticket' = ticket
           ELSE /\ ticket' = TicketFor(ticketId)
                /\ effects' = Append(effects, Call("fetchComments"))
                /\ pc' = "assemble.fetchComments"
    /\ UNCHANGED <<args, locale, ticketId, existingComments, agents, runState, uiStatus,
                   details, postResult, commentsFetch, runNo, firstRun, parked, io, tape>>

\* fetchComments resolves (with [] when it failed); a rejection would leave [] as well.
CommandFetchCommentsReturns ==
    /\ pc = "assemble.fetchComments"
    /\ \E res \in FetchCommentsResults :
        /\ commentsFetch' = res.outcome
        /\ existingComments' = fetchComments(res.outcome, res.stored)
    /\ effects' = Append(effects, Post("started", 0, "", <<>>))
    /\ pc' = "assemble.postComment"
    /\ UNCHANGED <<args, locale, ticketId, ticket, agents, runState, uiStatus, details,
                   postResult, ticketFetch, runNo, firstRun, parked, io, tape>>

CommandPostCommentReturns ==
    /\ pc = "assemble.postComment"
    /\ postResult' \in BOOLEAN
    /\ effects' = AfterStartedComment(effects, postResult',
                                      buildAssemblePrompt(ticket, existingComments, locale))
    /\ pc' = "done"
    /\ UNCHANGED <<context, tape, runState, uiStatus, details>>

NextCommand ==
    \/ CommandStart
    \/ CommandWaitForIdleReturns
    \/ CommandFetchTicketReturns
    \/ CommandFetchCommentsReturns
    \/ CommandPostCommentReturns

SpecCommand == InitCommand /\ [][NextCommand]_vars

(***************************************************************************)
(* The two truncation helpers on their own.  A string is described by its  *)
(* length; a result is the number of leading characters kept and whether   *)
(* the marker "\n\n... (truncated)" was appended.                          *)
(***************************************************************************)
MaxBodyLen == 12200

\* maxChars: number = 12000 (truncateForLinearComment)
LINEAR_COMMENT_BUDGET == 12000

\* maxChars: number = 2000 (truncateOutput)
OUTPUT_BUDGET == 2000

\* truncateOutput(output, 500), the preview of the conversation
PREVIEW_BUDGET == 500

\* The characters left free for the marker: slice(0, maxChars - 100)
TRUNCATION_MARGIN == 100

\* "\n\n... (truncated)".length
MARKER_LENGTH == 17

\* String.prototype.slice(0, end) on a string of n characters, as the length of its result.
Slice(n, end) ==
    IF end < 0 THEN (IF n + end > 0 THEN n + end ELSE 0)
    ELSE IF end < n THEN end ELSE n

\* The slice keeps maxChars characters: no room is left for the marker.
truncateOutput_NoMargin(n, maxChars) ==
    IF n <= maxChars THEN [kept |-> n, marker |-> FALSE]
    ELSE [kept |-> Slice(n, maxChars), marker |-> TRUE]

truncateOutput(n, maxChars) ==
    IF n <= maxChars THEN [kept |-> n, marker |-> FALSE]
    ELSE [kept |-> Slice(n, maxChars - TRUNCATION_MARGIN), marker |-> TRUE]

truncateForLinearComment(n, maxChars) ==
    IF n <= maxChars THEN [kept |-> n, marker |-> FALSE]
    ELSE [kept |-> Slice(n, maxChars - TRUNCATION_MARGIN), marker |-> TRUE]

\* "...".length of a result
ResultLength(r) == r.kept + (IF r.marker THEN MARKER_LENGTH ELSE 0)

TruncateCalls ==
    [fn : {"truncateForLinearComment"}, len : 0..MaxBodyLen, maxChars : {LINEAR_COMMENT_BUDGET},
     result : {[kept |-> 0, marker |-> FALSE]}]
    \cup [fn : {"truncateOutput"}, len : 0..MaxBodyLen, maxChars : {OUTPUT_BUDGET, PREVIEW_BUDGET},
          result : {[kept |-> 0, marker |-> FALSE]}]

InitTruncate ==
    /\ pc = "truncate"
    /\ io \in TruncateCalls
    /\ args = <<>>
    /\ locale = "en-US"
    /\ ticketId = <<>>
    /\ ticket = NoTicket
    /\ existingComments = <<>>
    /\ agents = {}
    /\ phases = <<>>
    /\ finalVerdict = NULL
    /\ lastWorkerOutput = <<>>
    /\ lastReviewerFeedback = <<>>
    /\ fatalError = NULL
    /\ partialSummaryPosted = FALSE
    /\ scoutOutput = <<>>
    /\ planOutput = <<>>
    /\ iteration = 0
    /\ uiStatus = ""
    /\ effects = <<>>
    /\ details = NoDetails
    /\ postResult = TRUE
    /\ ticketFetch = "pending"
    /\ commentsFetch = "pending"
    /\ runNo = 1
    /\ tape = NoTape
    /\ firstRun = NoRun
    /\ parked = NoRunParked

Truncate ==
    /\ pc = "truncate"
    /\ io' = [io EXCEPT !.result =
                  IF io.fn = "truncateOutput" THEN truncateOutput(io.len, io.maxChars)
                  ELSE truncateForLinearComment(io.len, io.maxChars)]
    /\ pc' = "truncated"
    /\ UNCHANGED <<args, locale, ticketId, ticket, existingComments, agents, ticketFetch,
                   commentsFetch, runNo, firstRun, parked, tape, runState, uiStatus, effects,
                   details, postResult>>

SpecTruncate == InitTruncate /\ [][Truncate]_vars

(***************************************************************************)
(* The command invoked a second time on the same ticket.  Invocation 1 is  *)
(* the reference run, in which every post to the Progress Sink succeeds;   *)
(* invocation 2 gets the same ticket, comments, agents and step results    *)
(* from the tape, and any of its posts may fail.                           *)
(***************************************************************************)
InitRepeat ==
    /\ pc = "start"
    /\ args = <<" ", "E", "N", "G", "-", "4", "2">>
    /\ locale = "en-US"
    /\ ticketId = <<>>
    /\ ticket = NoTicket
    /\ existingComments = <<>>
    /\ agents = {}
    /\ phases = <<>>
    /\ finalVerdict = NULL
    /\ lastWorkerOutput = <<>>
    /\ lastReviewerFeedback = <<>>
    /\ fatalError = NULL
    /\ partialSummaryPosted = FALSE
    /\ scoutOutput = <<>>
    /\ planOutput = <<>>
    /\ iteration = 0
    /\ uiStatus = ""
    /\ effects = <<>>
    /\ details = NoDetails
    /\ postResult = TRUE
    /\ ticketFetch = "pending"
    /\ commentsFetch = "pending"
    /\ runNo = 1
    /\ tape = [NoTape EXCEPT !.sink = "up"]
    /\ firstRun = NoRun
    /\ parked = NoRunParked
    /\ io = NoCall

\* What a run did, as the claim about the Progress Sink compares it.
Observed ==
    [agentSteps |-> SelectSeq(effects, LAMBDA e : e.kind = "agent"),
     phases |-> phases,
     finalVerdict |-> finalVerdict,
     details |-> details,
     uiStatus |-> uiStatus,
     notices |-> SelectSeq(effects, LAMBDA e : e.kind = "notify")]

\* The handler is entered again with the same argument, once invocation 1 has ended.
SecondRun ==
    /\ pc = "done"
    /\ runNo = 1
    /\ runNo' = 2
    /\ firstRun' = Observed
    /\ pc' = "start"
    /\ ticketId' = <<>>
    /\ ticket' = NoTicket
    /\ existingComments' = <<>>
    /\ agents' = {}
    /\ phases' = <<>>
    /\ finalVerdict' = NULL
    /\ lastWorkerOutput' = <<>>
    /\ lastReviewerFeedback' = <<>>
    /\ fatalError' = NULL
    /\ partialSummaryPosted' = FALSE
    /\ scoutOutput' = <<>>
    /\ planOutput' = <<>>
    /\ iteration' = 0
    /\ uiStatus' = ""
    /\ effects' = <<>>
    /\ details' = NoDetails
    /\ postResult' = TRUE
    /\ ticketFetch' = "pending"
    /\ commentsFetch' = "pending"
    /\ UNCHANGED <<args, locale, tape, parked, io>>

NextRepeat == Next \/ SecondRun

SpecRepeat == InitRepeat /\ [][NextRepeat]_vars

(***************************************************************************)
(* Two invocations of the command in flight at once.  The handler is an    *)
(* async function: it gives up control only at an await, which is where    *)
(* every action of the model ends, and the host may then resume the other  *)
(* invocation.  The variables of the module are the bindings of the        *)
(* invocation that is running; parked holds those of the suspended one.    *)
(* A reference invocation first runs alone on the inputs of invocation 3.  *)
(***************************************************************************)
\* The bindings of the running invocation (args, ticketId, ticket, ..., the run state), with
\* the calls it made and the inputs it is given.
Suspended ==
    [pc |-> pc, args |-> args, ticketId |-> ticketId, ticket |-> ticket,
     existingComments |-> existingComments, agents |-> agents, phases |-> phases,
     finalVerdict |-> finalVerdict, lastWorkerOutput |-> lastWorkerOutput,
     lastReviewerFeedback |-> lastReviewerFeedback, fatalError |-> fatalError,
     partialSummaryPosted |-> partialSummaryPosted, scoutOutput |-> scoutOutput,
     planOutput |-> planOutput, iteration |-> iteration, effects |-> effects,
     details |-> details, postResult |-> postResult, ticketFetch |-> ticketFetch,
     commentsFetch |-> commentsFetch, runNo |-> runNo, tape |-> tape]

\* The bindings of an invocation that has not run yet.
FreshRun(a, n, t) ==
    [pc |-> "start", args |-> a, ticketId |-> <<>>, ticket |-> NoTicket,
     existingComments |-> <<>>, agents |-> {}, phases |-> <<>>, finalVerdict |-> NULL,
     lastWorkerOutput |-> <<>>, lastReviewerFeedback |-> <<>>, fatalError |-> NULL,
     partialSummaryPosted |-> FALSE, scoutOutput |-> <<>>, planOutput |-> <<>>,
     iteration |-> 0, effects |-> <<>>, details |-> NoDetails, postResult |-> TRUE,
     ticketFetch |-> "pending", commentsFetch |-> "pending", runNo |-> n, tape |-> t]

\* The run state declared at module level: a resumed invocation finds what the other left.
Bindings_SharedRunState(own, other) ==
    [own EXCEPT !.phases = other.phases,
                !.finalVerdict = other.finalVerdict,
                !.lastWorkerOutput = other.lastWorkerOutput,
                !.lastReviewerFeedback = other.lastReviewerFeedback,
                !.partialSummaryPosted = other.partialSummaryPosted]

\* The run state is declared inside the handler: a resumed invocation finds its own.
Bindings(own, other) == own

Resume(r) ==
    /\ pc' = r.pc
    /\ args' = r.args
    /\ ticketId' = r.ticketId
    /\ ticket' = r.ticket
    /\ existingComments' = r.existingComments
    /\ agents' = r.agents
    /\ phases' = r.phases
    /\ finalVerdict' = r.finalVerdict
    /\ lastWorkerOutput' = r.lastWorkerOutput
    /\ lastReviewerFeedback' = r.lastReviewerFeedback
    /\ fatalError' = r.fatalError
    /\ partialSummaryPosted' = r.partialSummaryPosted
    /\ scoutOutput' = r.scoutOutput
    /\ planOutput' = r.planOutput
    /\ iteration' = r.iteration
    /\ effects' = r.effects
    /\ details' = r.details
    /\ postResult' = r.postResult
    /\ ticketFetch' = r.ticketFetch
    /\ commentsFetch' = r.commentsFetch
    /\ runNo' = r.runNo
    /\ tape' = r.tape

\* What an invocation leaves behind: its run state, its details and the calls it made.
Outcome(r) ==
    [phases |-> r.phases, finalVerdict |-> r.finalVerdict,
     lastWorkerOutput |-> r.lastWorkerOutput,
     lastReviewerFeedback |-> r.lastReviewerFeedback,
     partialSummaryPosted |-> r.partialSummaryPosted, fatalError |-> r.fatalError,
     details |-> r.details, calls |-> r.effects]

StepOk(out) == [threw |-> FALSE, exitCode |-> 0, output |-> out, message |-> ""]

StepFailed(out) == [threw |-> FALSE, exitCode |-> 1, output |-> out, message |-> ""]

StepThrew(msg) == [threw |-> TRUE, exitCode |-> 0, output |-> <<>>, message |-> msg]

\* The inputs of one invocation: the ticket is fetched, all agents are found, and the agent
\* steps return as listed.
TapeOf(steps) ==
    [ticket |-> "ok", comments |-> [outcome |-> "ok", stored |-> <<>>],
     agents |-> REQUIRED_AGENTS, steps |-> steps, sink |-> "any"]

ToWorker1 == <<StepOk(<<"found", " ", "A">>), StepOk(<<"plan", " ", "A">>)>>

ToReviewer1 == Append(ToWorker1, StepOk(<<"w1">>))

PairTapes ==
    { [TapeOf(<<>>) EXCEPT !.ticket = "notfound"],
      [TapeOf(<<>>) EXCEPT !.agents = REQUIRED_AGENTS \ {"reviewer"}],
      TapeOf(<<StepFailed(<<>>)>>),
      TapeOf(<<StepOk(<<"found", " ", "B">>), StepFailed(<<>>)>>),
      TapeOf(Append(ToWorker1, StepFailed(<<>>))),
      TapeOf(Append(ToReviewer1, StepFailed(RevApproved))),
      TapeOf(Append(ToReviewer1, StepOk(RevApproved))),
      TapeOf(ToReviewer1 \o <<StepOk(RevNeedsWork), StepOk(<<"w2">>), StepOk(RevApprovedFirst)>>),
      TapeOf(ToReviewer1 \o <<StepOk(RevNeedsWork), StepThrew("boom")>>),
      TapeOf(ToReviewer1 \o <<StepOk(RevNeedsWork), StepFailed(<<>>)>>),
      TapeOf(ToReviewer1 \o <<StepOk(RevNeedsWork), StepOk(<<"w2">>), StepOk(RevNoMarker),
                              StepOk(<<"w1">>), StepOk(RevTwoMarkers)>>) }

\* The same ticket entered again, or another ticket.
PairArgs == { <<" ", "E", "N", "G", "-", "4", "2">>, <<"k", "-", "7">> }

InitPair ==
    /\ pc = "start"
    /\ args = <<" ", "E", "N", "G", "-", "4", "2">>
    /\ locale = "en-US"
    /\ ticketId = <<>>
    /\ ticket = NoTicket
    /\ existingComments = <<>>
    /\ agents = {}
    /\ phases = <<>>
    /\ finalVerdict = NULL
    /\ lastWorkerOutput = <<>>
    /\ lastReviewerFeedback = <<>>
    /\ fatalError = NULL
    /\ partialSummaryPosted = FALSE
    /\ scoutOutput = <<>>
    /\ planOutput = <<>>
    /\ iteration = 0
    /\ uiStatus = ""
    /\ effects = <<>>
    /\ details = NoDetails
    /\ postResult = TRUE
    /\ ticketFetch = "pending"
    /\ commentsFetch = "pending"
    /\ runNo = 2
    /\ tape \in PairTapes
    /\ firstRun = NoRun
    /\ \E a \in PairArgs, t \in PairTapes : parked = [FreshRun(a, 4, t) EXCEPT !.pc = "waiting"]
    /\ io = NoCall

\* The reference invocation has ended: invocation 3 is entered with the same argument and
\* inputs, and invocation 4 may be entered at any time from now on.
StartPair ==
    /\ pc = "done"
    /\ runNo = 2
    /\ firstRun' = Outcome(Suspended)
    /\ Resume(FreshRun(args, 3, tape))
    /\ parked' = [parked EXCEPT !.pc = "start"]
    /\ UNCHANGED <<locale, uiStatus, io>>

\* The running invocation is at an await (or has returned) and the host resumes the other.
Switch ==
    /\ runNo \in {3, 4}
    /\ parked.pc \notin {"none", "waiting", "done"}
    /\ Resume(Bindings(parked, Suspended))
    /\ parked' = Suspended
    /\ UNCHANGED <<locale, uiStatus, firstRun, io>>

NextPair == Next \/ StartPair \/ Switch

SpecPair == InitPair /\ [][NextPair]_vars

(***************************************************************************)
(* Reading the run                                                         *)
(***************************************************************************)
EffectsAt(kind, what) ==
    {i \in 1..Len(effects) : effects[i].kind = kind /\ effects[i].what = what}

Count(kind, what) == Cardinality(EffectsAt(kind, what))

AgentSteps == {i \in 1..Len(effects) : effects[i].kind = "agent"}

\* The text holds the lexemes of part, in order and side by side.
Contains(text, part) ==
    \E i \in 1..(Len(text) + 1) :
        /\ i + Len(part) - 1 <= Len(text)
        /\ SubSeq(text, i, i + Len(part) - 1) = part

Invoked(role, n) ==
    \E i \in AgentSteps : effects[i].what = role /\ effects[i].n = n

\* The run passed the required-agents check: the scout was started.
PipelineStarted == Invoked("scout", 0)

SomePhaseFailed == \E i \in 1..Len(phases) : phases[i].exitCode # 0

AllPhasesExitZero == \A i \in 1..Len(phases) : phases[i].exitCode = 0

PhaseNames == [i \in 1..Len(phases) |-> <<phases[i].agent, phases[i].iter>>]

RECURSIVE Pairs(_, _)
Pairs(from, to) ==
    IF from > to THEN <<>>
    ELSE << <<"worker", from>>, <<"reviewer", from>> >> \o Pairs(from + 1, to)

\* scout, planner, worker-1, reviewer-1, ..., worker-k, reviewer-k
PipelineOrder(k) == << <<"scout", 0>>, <<"planner", 0>> >> \o Pairs(1, k)

ReviewerRecords == {p \in 1..Len(phases) : phases[p].agent = "reviewer"}

\* The documents posted to the Progress Sink, in order.
PostedDocs ==
    LET posts == SelectSeq(effects, LAMBDA e : e.kind = "post")
    IN  [i \in 1..Len(posts) |-> posts[i].what]

SummaryPosts ==
    {i \in 1..Len(effects) :
        effects[i].kind = "post" /\ effects[i].what \in {"summary", "partial"}}

(***************************************************************************)
(* C1: in every run the worker is invoked at most 3 times and the reviewer  *)
(* at most 3 times, whatever the verdicts and exit statuses are.            *)
(***************************************************************************)
C1_AtMostThreeIterations ==
    /\ Count("agent", "worker") <= 3
    /\ Count("agent", "reviewer") <= 3

C1_Witness ==
    /\ pc = "done"
    /\ Count("agent", "worker") = 3
    /\ Count("agent", "reviewer") = 3
    /\ finalVerdict = "needs_work"

(***************************************************************************)
(* C2: once a phase has returned a nonzero exit status no further agent     *)
(* step is invoked (so the failed phase is not retried), and only the last  *)
(* record of the phase history can have a nonzero exit status.              *)
(***************************************************************************)
C2_FailFast ==
    /\ [][SomePhaseFailed =>
            SelectSeq(effects', LAMBDA e : e.kind = "agent")
              = SelectSeq(effects, LAMBDA e : e.kind = "agent")]_vars
    /\ [](\A i \in 1..Len(phases) : phases[i].exitCode # 0 => i = Len(phases))

C2_Witness ==
    /\ pc = "done"
    /\ Len(phases) = 5
    /\ phases[5].agent = "worker"
    /\ phases[5].exitCode # 0
    /\ Count("agent", "worker") = 2
    /\ Count("agent", "reviewer") = 1

(***************************************************************************)
(* C3: once reviewer iteration i has returned with exit status 0 and its    *)
(* progress post has returned, worker iteration i+1 is invoked if and only  *)
(* if the verdict parsed from that reviewer's output is not approved and    *)
(* i < 3; if the verdict is approved or i = 3 the run is in reporting and   *)
(* that reviewer is the last agent step of the run.                         *)
(***************************************************************************)
C3_Decided(p) == ~(p = Len(phases) /\ pc = "postReviewer")

C3_LoopDecision ==
    \A p \in ReviewerRecords :
        phases[p].exitCode = 0 =>
            LET i == phases[p].iter
                continues == parseVerdict(phases[p].output) # "approved" /\ i < 3
            IN  /\ Invoked("worker", i + 1) <=> (C3_Decided(p) /\ continues)
                /\ (C3_Decided(p) /\ ~continues) =>
                       /\ pc \in {"postSummary", "done"}
                       /\ p = Len(phases)
                       /\ \A j \in AgentSteps : effects[j].n <= i
                       /\ Count("agent", "reviewer") = i

C3_Witness ==
    /\ pc = "done"
    /\ Len(phases) = 6
    /\ phases[4].output = RevNoMarker
    /\ phases[6].output = RevApproved
    /\ phases[6].exitCode = 0
    /\ Invoked("worker", 2)
    /\ ~Invoked("worker", 3)

(***************************************************************************)
(* C4: if every phase exits 0 and the first reviewer output carrying        *)
(* VERDICT: APPROVED is that of iteration k (earlier reviewers emitting     *)
(* VERDICT: NEEDS_WORK), the run ends with exactly 2 + 2k phase records in  *)
(* the order scout, planner, worker-1, reviewer-1, ..., worker-k,           *)
(* reviewer-k, verdict approved, status complete and iterations = k.        *)
(***************************************************************************)
C4_ApprovedAt(k) ==
    /\ \E p \in ReviewerRecords : phases[p].iter = k /\ phases[p].output = RevApproved
    /\ \A p \in ReviewerRecords : phases[p].iter < k => phases[p].output = RevNeedsWork

C4_ApprovedRun ==
    \A k \in 1..3 :
        (pc = "done" /\ AllPhasesExitZero /\ C4_ApprovedAt(k)) =>
            /\ Len(phases) = 2 + 2 * k
            /\ PhaseNames = PipelineOrder(k)
            /\ details.verdict = "approved"
            /\ details.status = "complete"
            /\ details.iterations = k
            /\ finalVerdict = "approved"

C4_Witness ==
    /\ pc = "done"
    /\ AllPhasesExitZero
    /\ C4_ApprovedAt(3)
    /\ Len(phases) = 8
    /\ details.iterations = 3

(***************************************************************************)
(* C5: in every run that started the pipeline exactly one summary document  *)
(* is handed to the Progress Sink, the generic final summary or a           *)
(* partial-failure summary, never both and never neither, and no other      *)
(* post follows it.  (A post is the handler's call of postComment, whatever *)
(* the sink answers.)                                                       *)
(***************************************************************************)
C5_OneSummary ==
    /\ Cardinality(SummaryPosts) <= 1
    /\ \A i \in SummaryPosts : \A j \in (i + 1)..Len(effects) : effects[j].kind # "post"
    /\ (pc = "done" /\ PipelineStarted) => Cardinality(SummaryPosts) = 1

C5_Witness ==
    /\ pc = "done"
    /\ PipelineStarted
    /\ partialSummaryPosted
    /\ Count("post", "partial") = 1
    /\ Count("post", "summary") = 0
    /\ ~postResult

(***************************************************************************)
(* C6: a nonzero exit of scout or planner posts one error document followed *)
(* by the generic final summary and no partial summary; a nonzero exit of   *)
(* worker-i or reviewer-i posts one error document followed by exactly one  *)
(* partial-failure summary and no generic final summary.                    *)
(***************************************************************************)
C6_LastTwoDocs == SubSeq(PostedDocs, Len(PostedDocs) - 1, Len(PostedDocs))

C6_FailureDocuments ==
    (pc = "done" /\ SomePhaseFailed) =>
        LET last == phases[Len(phases)]
        IN  /\ Count("post", "error") = 1
            /\ Len(PostedDocs) >= 2
            /\ \A i \in EffectsAt("post", "error") : effects[i].n = last.iter
            /\ IF last.agent \in {"scout", "planner"}
               THEN /\ C6_LastTwoDocs = <<"error", "summary">>
                    /\ Count("post", "summary") = 1
                    /\ Count("post", "partial") = 0
               ELSE /\ C6_LastTwoDocs = <<"error", "partial">>
                    /\ Count("post", "partial") = 1
                    /\ Count("post", "summary") = 0

C6_Witness ==
    /\ pc = "done"
    /\ Len(phases) = 5
    /\ phases[5].agent = "worker"
    /\ phases[5].iter = 2
    /\ phases[5].exitCode # 0
    /\ C6_LastTwoDocs = <<"error", "partial">>

(***************************************************************************)
(* C7 (as amended): every run whose ticket fetch succeeded and in which all *)
(* four required agents were discovered reaches the reporting step exactly  *)
(* once, whether it ends by approval, by a failed or throwing phase or by   *)
(* cap exhaustion: exactly one 'assemble-complete' message is eventually    *)
(* sent, after the last agent step and the last post.  "Eventually" is      *)
(* stated as: the run cannot stop before the handler's end and cannot run   *)
(* for ever.                                                                *)
(***************************************************************************)
C7_CompleteSent == Count("message", "assemble-complete") = 1

C7_ReportingSafe ==
    /\ Count("message", "assemble-complete") <= 1
    /\ \A i \in EffectsAt("message", "assemble-complete") :
           \A j \in (i + 1)..Len(effects) : effects[j].kind \notin {"agent", "post"}
    /\ C7_CompleteSent => (pc = "done" /\ PipelineStarted /\ details.status # "running")
    /\ (pc = "done" /\ PipelineStarted) => C7_CompleteSent

\* Every awaited call returns, so a run that is not over takes its next step
\* (ENABLED Next), and every step appends to effects, which no run grows beyond
\* a fixed length: the run reaches the handler's end.
C7_ReportingOnce ==
    /\ []C7_ReportingSafe
    /\ [](pc # "done" => ENABLED Next)
    /\ [](Len(effects) <= 40)
    /\ [][Len(effects') > Len(effects)]_vars

C7_Witness ==
    /\ pc = "done"
    /\ fatalError = "boom"
    /\ Len(phases) = 5
    /\ C7_CompleteSent

\* C7 as claimed: every run whose ticket fetch succeeded sends exactly one
\* 'assemble-complete' message by the time it ends.
C7_Original ==
    (pc = "done" /\ ticket # NoTicket) => C7_CompleteSent

(***************************************************************************)
(* C8 as claimed: every run emits exactly one terminal user notification,   *)
(* one of success/approved, success/needs-work or failure, and a run that   *)
(* ended because a phase failed is notified as a failure.  The terminal     *)
(* notification is the ctx.ui.notify call that ends the handler; 'Assembly  *)
(* finished' and every notification of level error are read as failures.    *)
(***************************************************************************)
C8_TerminalNotices ==
    {i \in 1..Len(effects) :
        effects[i].kind = "notify" /\ effects[i].what # "Starting assembly"}

C8_IsFailureNotice(e) == e.arg = "error" \/ e.what = "Assembly finished"

C8_Original ==
    pc = "done" =>
        /\ Cardinality(C8_TerminalNotices) = 1
        /\ \A i \in C8_TerminalNotices :
            /\ i = Len(effects)
            /\ \/ effects[i].what = "Assembly approved"
               \/ effects[i].what = "Assembly completed with feedback"
               \/ C8_IsFailureNotice(effects[i])
            /\ SomePhaseFailed => C8_IsFailureNotice(effects[i])

(***************************************************************************)
(* C9: a run ending on an unresolved verdict (no step threw and its last     *)
(* reviewer output, of exit status 0, has no verdict marker) is reported as *)
(* a failure, a run ending on VERDICT:    *)
(* NEEDS_WORK as needs work: the two never get the same final status in the *)
(* final summary or in the final details.                                   *)
(***************************************************************************)
C9_EndsOnReviewer(output) ==
    /\ pc = "done"
    /\ fatalError = NULL
    /\ Len(phases) > 0
    /\ phases[Len(phases)].agent = "reviewer"
    /\ phases[Len(phases)].exitCode = 0
    /\ phases[Len(phases)].output = output

C9_SummaryStatuses == {effects[i].arg : i \in EffectsAt("post", "summary")}

C9_UnresolvedIsFailure ==
    /\ C9_EndsOnReviewer(RevNoMarker) =>
           /\ C9_SummaryStatuses = {"Failed"}
           /\ details.status = "failed"
           /\ details.statusText = "Assembly failed"
           /\ details.verdict = NULL
    /\ C9_EndsOnReviewer(RevNeedsWork) =>
           /\ C9_SummaryStatuses = {"Needs Work"}
           /\ details.status = "complete"
           /\ details.statusText = "Assembly complete - Needs work"
           /\ details.verdict = "needs_work"

C9_Witness ==
    /\ C9_EndsOnReviewer(RevNoMarker)
    /\ phases[4].output = RevNeedsWork
    /\ C9_SummaryStatuses = {"Failed"}

(***************************************************************************)
(* C10 (as amended): if scout, planner and every worker and reviewer exit 0 *)
(* and no reviewer output holds a verdict marker in any of the 3            *)
(* iterations, the run ends after exactly 3 iterations with the final       *)
(* status failed (summary 'Failed', details status 'failed', no verdict):   *)
(* neither approved nor needs work.                                         *)
(***************************************************************************)
C10_NeverAMarker ==
    /\ pc = "done"
    /\ AllPhasesExitZero
    /\ ReviewerRecords # {}
    /\ \A p \in ReviewerRecords : phases[p].output = RevNoMarker
    /\ fatalError = NULL

C10_UnresolvedRunFails ==
    C10_NeverAMarker =>
        /\ details.iterations = 3
        /\ Len(phases) = 8
        /\ details.status = "failed"
        /\ details.statusText = "Assembly failed"
        /\ details.verdict = NULL
        /\ C9_SummaryStatuses = {"Failed"}
        /\ effects[Len(effects)].what = "Assembly finished"

C10_Witness ==
    /\ C10_NeverAMarker
    /\ Cardinality(ReviewerRecords) = 3

\* C10 as claimed: such a run ends with iterations = 3 and a final status that
\* reflects needs work, not approved.
C10_Original ==
    C10_NeverAMarker =>
        /\ details.iterations = 3
        /\ details.verdict # "approved"
        /\ \/ details.verdict = "needs_work"
           \/ details.statusText = "Assembly complete - Needs work"
           \/ "Needs Work" \in C9_SummaryStatuses
           \/ effects[Len(effects)].what = "Assembly completed with feedback"

(***************************************************************************)
(* C11: once the reviewer of iteration 3 has exited 0 with the marker      *)
(* VERDICT: NEEDS_WORK and its progress document has been posted, the run   *)
(* is reporting: no worker of an iteration 4 is ever started, the generic   *)
(* final summary is posted with the status "Needs Work" and 3 iterations,   *)
(* never a partial summary, and the run ends with the status "complete",    *)
(* the verdict needs_work and 3 iterations, which is neither the approved   *)
(* nor the failed status.                                                   *)
(***************************************************************************)
C11_CapReached ==
    /\ Len(phases) = 2 + 2 * MAX_ITERATIONS
    /\ phases[Len(phases)].agent = "reviewer"
    /\ phases[Len(phases)].iter = 3
    /\ phases[Len(phases)].exitCode = 0
    /\ phases[Len(phases)].output = RevNeedsWork
    /\ pc # "postReviewer"

C11_NeedsWorkAtCap ==
    C11_CapReached =>
        /\ pc \in {"postSummary", "done"}
        /\ \A n \in 4..6 : ~Invoked("worker", n)
        /\ Count("agent", "worker") = 3
        /\ Count("post", "summary") = 1
        /\ Count("post", "partial") = 0
        /\ \A i \in EffectsAt("post", "summary") :
              effects[i].arg = "Needs Work" /\ effects[i].n = 3
        /\ finalVerdict = "needs_work"
        /\ pc = "done" =>
              /\ details.status = "complete"
              /\ details.verdict = "needs_work"
              /\ details.iterations = 3
              /\ details.statusText = "Assembly complete - Needs work"
              /\ effects[Len(effects)] = Notify("Assembly completed with feedback", "warning")

C11_Witness == C11_CapReached /\ pc = "done" /\ details.iterations = 3

(***************************************************************************)
(* C12: when the scout and the planner have both exited 0 and the plan has *)
(* been posted, worker-1 has been started; and when worker-1 has exited 0  *)
(* and its progress document has been posted, reviewer-1 has been started. *)
(* A worker-1 that fails or throws ends the run before any reviewer.       *)
(***************************************************************************)
C12_PlanningSucceeded ==
    /\ Len(phases) >= 2
    /\ phases[1].exitCode = 0
    /\ phases[2].exitCode = 0
    /\ pc # "postPlanner"

C12_FirstWorkerSucceeded ==
    /\ Len(phases) >= 3
    /\ phases[3].exitCode = 0
    /\ ~(pc = "postWorker" /\ Len(phases) = 3)

C12_FirstPair ==
    /\ C12_PlanningSucceeded => Invoked("worker", 1)
    /\ C12_PlanningSucceeded /\ C12_FirstWorkerSucceeded => Invoked("reviewer", 1)
    /\ pc = "done" /\ Invoked("reviewer", 1) => C12_FirstWorkerSucceeded

C12_Witness ==
    /\ pc = "done"
    /\ C12_PlanningSucceeded
    /\ C12_FirstWorkerSucceeded
    /\ Invoked("worker", 1)
    /\ Invoked("reviewer", 1)

\* The claim as written: a run whose scout and planner succeeded has invoked both worker-1
\* and reviewer-1 by its end.
C12_Original ==
    pc = "done" /\ C12_PlanningSucceeded => Invoked("worker", 1) /\ Invoked("reviewer", 1)

(***************************************************************************)
(* C13: when the handler has run on an argument whose trimmed text is      *)
(* empty or is not of the ticket-id format (letters or digits, one dash,   *)
(* digits), it has ended, and all it did is one error notification: there  *)
(* is no wait-for-idle, no ticket or comment fetch, no post to the         *)
(* Progress Sink, no agent discovery and no agent step.                    *)
(***************************************************************************)
\* The arguments of the model carry blanks at their ends only.
C13_Trimmed == SelectSeq(args, LAMBDA c : c # " ")

C13_Dashes(id) == {i \in 1..Len(id) : id[i] = "-"}

C13_TicketIdFormat(id) ==
    /\ Cardinality(C13_Dashes(id)) = 1
    /\ \A d \in C13_Dashes(id) :
          /\ 1 < d
          /\ d < Len(id)
          /\ \A i \in 1..Len(id) : i < d => id[i] \in Letters \cup Digits
          /\ \A i \in 1..Len(id) : i > d => id[i] \in Digits

C13_Rejected == pc # "start" /\ ~C13_TicketIdFormat(C13_Trimmed)

C13_InvalidArgument ==
    C13_Rejected =>
        /\ pc = "done"
        /\ Len(effects) = 1
        /\ effects[1].kind = "notify"
        /\ effects[1].arg = "error"
        /\ effects[1].what \in {"Usage", "Invalid ticket ID"}
        /\ \A i \in 1..Len(effects) : effects[i].kind \notin {"call", "post", "agent", "message"}
        /\ agents = {}
        /\ phases = <<>>
        /\ ticket = NoTicket

C13_Witness ==
    /\ C13_Rejected
    /\ C13_Trimmed # <<>>
    /\ effects = <<Notify("Invalid ticket ID", "error")>>

(***************************************************************************)
(* C14: validateTicketId accepts a string exactly when it is one or more   *)
(* ASCII letters or digits, then one dash, then one or more decimal        *)
(* digits.  ENG-427 and k27-4 are accepted; a string without a dash, with  *)
(* nothing before or after its dash, with a second dash or with a blank    *)
(* at either end is rejected, and so is the empty string.                  *)
(***************************************************************************)
C14_Validated == pc \in {"valid", "invalid"}

C14_AllIn(s, S) == \A i \in 1..Len(s) : s[i] \in S

C14_Format(s) ==
    \E n \in 1..Len(s) :
        /\ n + 2 <= Len(s)
        /\ C14_AllIn(SubSeq(s, 1, n), Letters \cup Digits)
        /\ s[n + 1] = "-"
        /\ C14_AllIn(SubSeq(s, n + 2, Len(s)), Digits)

C14_Rejects ==
    { <<>>, <<"E", "4">>, <<"-", "4">>, <<"E", "-">>, <<"-">>, <<"E", "-", "4", "-">>,
      <<"E", "-", "-", "4">>, <<"E", "-", "4", " ">>, <<" ", "E", "-", "4">>,
      <<"E", "_", "4">>, <<"E", "-", "k">>, <<"E", " ", "-", "4">> }

C14_Accepts ==
    { <<"E", "N", "G", "-", "4", "2", "7">>, <<"k", "2", "7", "-", "4">>, <<"E", "-", "4">>,
      <<"4", "-", "2">>, <<"k", "2", "-", "4">> }

C14_ValidateTicketId ==
    C14_Validated =>
        /\ pc = "valid" <=> C14_Format(args)
        /\ args \in C14_Accepts => pc = "valid"
        /\ args \in C14_Rejects => pc = "invalid"

C14_Witness == pc = "valid" /\ args = <<"k", "2", "7", "-", "4">>

(***************************************************************************)
(* C15: when fetchTicket has failed (no API key, ticket not found, or a    *)
(* failed request), the run has ended and its last act is the error        *)
(* notification "Failed to fetch ticket"; the phase history is empty, and  *)
(* there is no comment fetch, no post to the Progress Sink, no agent step  *)
(* and no session message.                                                 *)
(***************************************************************************)
C15_FetchFailed == ticketFetch \in {"nokey", "notfound", "error"}

C15_FetchTicketFails ==
    C15_FetchFailed =>
        /\ pc = "done"
        /\ effects[Len(effects)] = Notify("Failed to fetch ticket", "error")
        /\ Cardinality({i \in 1..Len(effects) :
                           effects[i].kind = "notify" /\ effects[i].arg = "error"}) = 1
        /\ phases = <<>>
        /\ Count("call", "fetchComments") = 0
        /\ \A i \in 1..Len(effects) : effects[i].kind \notin {"post", "agent", "message"}
        /\ ticket = NoTicket
        /\ commentsFetch = "pending"
        /\ details = NoDetails

C15_Witness ==
    /\ ticketFetch = "nokey"
    /\ pc = "done"
    /\ Count("call", "fetchTicket") = 1
    /\ Count("notify", "Failed to fetch ticket") = 1

(***************************************************************************)
(* C16: when fetchComments has failed (no API key, or a failed request) on *)
(* a ticket that has comments, the handler holds an empty comment list and *)
(* goes on: the "Assembly Started" document is posted, and once the        *)
(* required agents are found the scout is started with a prompt whose      *)
(* comment section reads "None", the prompt of a ticket without comments.  *)
(* No error is notified for the comments, and a run with all its agents    *)
(* ends with the 'assemble-complete' message.                              *)
(***************************************************************************)
C16_CommentsFailed == commentsFetch \in {"nokey", "error"}

C16_Contains(text, part) ==
    \E i \in 1..Len(text) :
        /\ i + Len(part) - 1 <= Len(text)
        /\ SubSeq(text, i, i + Len(part) - 1) = part

C16_ScoutPrompts == {effects[i].text : i \in EffectsAt("agent", "scout")}

C16_AgentsFound == pc # "postStart" /\ REQUIRED_AGENTS \subseteq agents

C16_CommentFailureIsNotFatal ==
    C16_CommentsFailed =>
        /\ tape.comments.stored # <<>>
        /\ existingComments = <<>>
        /\ Count("post", "started") = 1
        /\ \A i \in 1..Len(effects) :
              effects[i].kind = "notify" /\ effects[i].arg = "error"
                  => effects[i].what = "Missing agents"
        /\ C16_AgentsFound =>
              /\ Invoked("scout", 0)
              /\ \A p \in C16_ScoutPrompts :
                    /\ C16_Contains(p, <<"## Existing Comments", "\n", "None", "\n">>)
                    /\ ~C16_Contains(p, <<"**">>)
                    /\ p = buildScoutPrompt(TicketFor(ticketId), <<>>, locale)
        /\ pc = "done" /\ C16_AgentsFound => Count("message", "assemble-complete") = 1

C16_Witness ==
    /\ commentsFetch = "error"
    /\ tape.comments.stored # <<>>
    /\ Invoked("scout", 0)
    /\ Len(phases) >= 1
    /\ pc = "done"

(***************************************************************************)
(* C18: the planner is invoked at most once in a run; the plan held by the *)
(* handler, once set, never changes; and the plan section of every worker  *)
(* prompt and of every reviewer prompt is, lexeme for lexeme, the output   *)
(* of that one planner step as the phase history records it.               *)
(***************************************************************************)
C18_Headings(text) == {i \in 1..Len(text) : text[i] \in {"## Plan", "## Original Plan"}}

\* The lines under the plan heading, up to the next line break (the plans of the model are
\* single lines).
C18_PlanSection(text) ==
    IF C18_Headings(text) = {} THEN <<>>
    ELSE LET h == CHOOSE i \in C18_Headings(text) : \A j \in C18_Headings(text) : i <= j
             ends == {e \in (h + 2)..Len(text) : text[e] = "\n"}
             e == IF ends = {} THEN Len(text) + 1
                  ELSE CHOOSE x \in ends : \A y \in ends : x <= y
         IN  SubSeq(text, h + 2, e - 1)

C18_ImplementSteps == {i \in AgentSteps : effects[i].what \in {"worker", "reviewer"}}

C18_PlanIsFixed ==
    /\ Count("agent", "planner") <= 1
    /\ \A i \in C18_ImplementSteps :
          /\ Count("agent", "planner") = 1
          /\ Len(phases) >= 2
          /\ phases[2].agent = "planner"
          /\ Cardinality(C18_Headings(effects[i].text)) = 1
          /\ C18_PlanSection(effects[i].text) = phases[2].output
          /\ planOutput = phases[2].output

C18_PlanNeverChanges == [][planOutput # <<>> => planOutput' = planOutput]_vars

C18_OnePlan == []C18_PlanIsFixed /\ C18_PlanNeverChanges

C18_Witness ==
    /\ Invoked("worker", 2)
    /\ Invoked("reviewer", 2)
    /\ \A i \in C18_ImplementSteps : C18_PlanSection(effects[i].text) = <<"plan", " ", "B">>

(***************************************************************************)
(* C19: at every point of a run the names of the phase history are a       *)
(* prefix of scout, planner, worker-1, reviewer-1, worker-2, reviewer-2,   *)
(* worker-3, reviewer-3, so that no role/iteration appears twice; a step   *)
(* of the run leaves the history as it is or appends one record to it;     *)
(* and the iteration number is 0 before the loop, 1 in its first pass,     *)
(* grows by one from pass to pass, and is never above 3.                   *)
(***************************************************************************)
C19_IsPrefix(s, t) == Len(s) <= Len(t) /\ s = SubSeq(t, 1, Len(s))

C19_HistoryShape ==
    /\ C19_IsPrefix(PhaseNames, PipelineOrder(3))
    /\ \A i, j \in 1..Len(phases) : PhaseNames[i] = PhaseNames[j] => i = j
    /\ iteration \in 0..3
    /\ iteration = Count("agent", "worker")
    /\ \A i \in 1..Len(phases) : phases[i].iter <= iteration

C19_AppendOnly ==
    [][phases' = phases \/ (Len(phases') = Len(phases) + 1 /\ C19_IsPrefix(phases, phases'))]_vars

C19_IterationSteps ==
    [][iteration' = iteration \/ iteration' = iteration + 1]_vars

C19_PhaseHistory == []C19_HistoryShape /\ C19_AppendOnly /\ C19_IterationSteps

C19_Witness == Len(phases) = 8 /\ iteration = 3 /\ PhaseNames = PipelineOrder(3)

(***************************************************************************)
(* C20: at most one agent step of a run is in flight at any time.  Every   *)
(* started step but the latest has returned, and the latest has not        *)
(* returned exactly while the handler awaits it.  A step is started only   *)
(* in a turn that begins with the return of a post to the Progress Sink:   *)
(* at that moment every earlier step has returned and has its phase        *)
(* record, the most recent post is the progress document of the previous   *)
(* step, and the turn starts that one step and posts nothing before it.    *)
(***************************************************************************)
C20_InFlight == pc \in {"scout", "planner", "worker", "reviewer"}

C20_Started == Cardinality(AgentSteps)

C20_Posts == {i \in 1..Len(effects) : effects[i].kind = "post"}

C20_LastPost == effects[CHOOSE i \in C20_Posts : \A j \in C20_Posts : j <= i]

C20_OneAtATime ==
    /\ C20_Started <= Len(phases) + 1
    /\ C20_InFlight => C20_Started = Len(phases) + 1 /\ effects[Len(effects)].kind = "agent"
    /\ C20_InFlight => effects[Len(effects)].what = pc
    /\ ~C20_InFlight /\ fatalError = NULL => C20_Started = Len(phases)

C20_StartsAfterPost ==
    [][Len(effects') > Len(effects) /\ effects'[Len(effects')].kind = "agent" =>
          /\ pc \in {"postStart", "postScout", "postPlanner", "postWorker", "postReviewer"}
          /\ phases' = phases
          /\ C20_Started = Len(phases)
          /\ Len(effects') = Len(effects) + 1
          /\ C20_Posts # {}
          /\ effects[Len(effects)].kind = "post"
          /\ Len(phases) > 0 =>
                /\ C20_LastPost.what = phases[Len(phases)].agent
                /\ C20_LastPost.n = phases[Len(phases)].iter
                /\ phases[Len(phases)].exitCode = 0
          /\ Len(phases) = 0 => C20_LastPost.what = "started"]_vars

C20_Sequential == []C20_OneAtATime /\ C20_StartsAfterPost

C20_Witness ==
    /\ pc = "reviewer"
    /\ iteration = 2
    /\ C20_Started = 6
    /\ Len(phases) = 5

(***************************************************************************)
(* C17: a run in which any of the posts to the Progress Sink fail does     *)
(* what the run with the same ticket, comments, agents and step results    *)
(* does when every post succeeds: at each point its agent invocations      *)
(* (roles and prompts), its phase history and its notifications are a      *)
(* prefix of that run's, it is never left without the recorded result it   *)
(* waits for, and at its end the agent invocations, the phase history,     *)
(* the final verdict, the terminal status and the notifications are        *)
(* equal.  Two runs that both equal the all-posts-succeed run equal each   *)
(* other.                                                                  *)
(***************************************************************************)
C17_IsPrefix(s, t) == Len(s) <= Len(t) /\ s = SubSeq(t, 1, Len(s))

C17_Follows ==
    /\ C17_IsPrefix(Observed.agentSteps, firstRun.agentSteps)
    /\ C17_IsPrefix(Observed.phases, firstRun.phases)
    /\ C17_IsPrefix(Observed.notices, firstRun.notices)

C17_ResultAvailable ==
    /\ pc = "fetchTicket" => Replay("ticket", FetchTicketOutcomes) # {}
    /\ pc = "fetchComments" => Replay("comments", FetchCommentsResults) # {}
    /\ pc = "postStart" => Replay("agents", AgentSets) # {}
    /\ pc \in {"scout", "planner", "worker", "reviewer"} => StepResults(pc) # {}

C17_SinkIndependence ==
    runNo = 2 =>
        /\ C17_Follows
        /\ C17_ResultAvailable
        /\ pc = "done" => Observed = firstRun

C17_Witness ==
    /\ runNo = 2
    /\ pc = "done"
    /\ postResult = FALSE
    /\ partialSummaryPosted
    /\ finalVerdict = "needs_work"
    /\ Observed = firstRun

(***************************************************************************)
(* C22: parseVerdict returns approved, needs_work or NULL (unresolved) for *)
(* every text, and nothing else.  A text whose first marker, VERDICT then  *)
(* optional blanks, a colon, optional blanks and APPROVED (NEEDS_WORK),    *)
(* each as a whole word and in any letter case, yields approved            *)
(* (needs_work); a text with no marker yields NULL.                        *)
(***************************************************************************)
C22_Parsed == pc = "parsed"

C22_Text == lastReviewerFeedback

C22_Blanks(t, i, j) == \A k \in i..j : t[k] \in {" ", "\n"}

C22_Bounded(t, i) == i < 1 \/ i > Len(t) \/ t[i] \notin WordLexemes

\* A marker for the words of W starts at lexeme i and has its verdict word at lexeme w.
C22_MarkerAt(t, i, w, W) ==
    /\ t[i] \in {"VERDICT", "verdict", "Verdict"}
    /\ C22_Bounded(t, i - 1)
    /\ t[w] \in W
    /\ C22_Bounded(t, w + 1)
    /\ \E c \in (i + 1)..(w - 1) :
          /\ t[c] = ":"
          /\ C22_Blanks(t, i + 1, c - 1)
          /\ C22_Blanks(t, c + 1, w - 1)

C22_ApprovedWords == {"APPROVED", "approved", "Approved"}

C22_NeedsWorkWords == {"NEEDS_WORK", "needs_work", "Needs_Work"}

C22_Starts(t, W) == {i \in 1..Len(t) : \E w \in i..Len(t) : C22_MarkerAt(t, i, w, W)}

C22_Markers(t) == C22_Starts(t, C22_ApprovedWords \cup C22_NeedsWorkWords)

C22_First(t, W) ==
    \E i \in C22_Starts(t, W) : \A j \in C22_Markers(t) : i <= j

C22_ParseVerdictTotal ==
    C22_Parsed =>
        /\ finalVerdict \in {"approved", "needs_work", NULL}
        /\ C22_Markers(C22_Text) = {} <=> finalVerdict = NULL
        /\ C22_First(C22_Text, C22_ApprovedWords) <=> finalVerdict = "approved"
        /\ C22_First(C22_Text, C22_NeedsWorkWords) <=> finalVerdict = "needs_work"
        /\ C22_Text = <<"verdict", ":", "Approved">> => finalVerdict = "approved"
        /\ C22_Text = <<"Verdict", " ", ":", " ", "needs_work">> => finalVerdict = "needs_work"
        /\ C22_Text = <<"LGTM", "VERDICT", ":", "APPROVED">> => finalVerdict = NULL

C22_Witness ==
    /\ C22_Parsed
    /\ C22_Text = <<"verdict", ":", " ", "Approved">>
    /\ finalVerdict = "approved"

\* The claim as written: a text that contains the APPROVED marker yields approved, and a
\* text that contains the NEEDS_WORK marker yields needs_work.
C22_Original ==
    C22_Parsed =>
        /\ C22_Starts(C22_Text, C22_ApprovedWords) # {} => finalVerdict = "approved"
        /\ C22_Starts(C22_Text, C22_NeedsWorkWords) # {} => finalVerdict = "needs_work"

(***************************************************************************)
(* C23: a reviewer that exits 0 with two markers in its output is judged   *)
(* by the first one.  NEEDS_WORK followed by approved is a needs_work      *)
(* verdict: before the cap the next worker is started with that output as  *)
(* its feedback, and at the cap the run ends with needs_work.  APPROVED    *)
(* followed by NEEDS_WORK is an approved verdict: the loop ends there, no  *)
(* further worker is started and the summary says "Approved".              *)
(***************************************************************************)
C23_Judged(p) == p < Len(phases) \/ pc # "postReviewer"

C23_SecondMarkerIgnored ==
    \A p \in ReviewerRecords :
        phases[p].exitCode = 0 /\ C23_Judged(p) =>
            LET i == phases[p].iter
            IN  /\ phases[p].output = RevTwoMarkers /\ i < MAX_ITERATIONS =>
                      /\ \E j \in AgentSteps :
                            /\ effects[j].what = "worker"
                            /\ effects[j].n = i + 1
                            /\ Contains(effects[j].text,
                                   <<"## Reviewer Feedback", "\n">> \o RevTwoMarkers)
                      /\ p = Len(phases) => finalVerdict = "needs_work"
                /\ phases[p].output = RevTwoMarkers /\ i = MAX_ITERATIONS =>
                      /\ finalVerdict = "needs_work"
                      /\ \A j \in EffectsAt("post", "summary") : effects[j].arg = "Needs Work"
                /\ phases[p].output = RevApprovedFirst =>
                      /\ p = Len(phases)
                      /\ finalVerdict = "approved"
                      /\ ~Invoked("worker", i + 1)
                      /\ pc \in {"postSummary", "done"}
                      /\ \A j \in EffectsAt("post", "summary") : effects[j].arg = "Approved"

C23_Witness ==
    /\ pc = "done"
    /\ Len(phases) = 6
    /\ phases[4].output = RevTwoMarkers
    /\ phases[6].output = RevApprovedFirst
    /\ finalVerdict = "approved"

(***************************************************************************)
(* C24: the worker prompt of iteration 1 has the implement framing and the *)
(* plan, and neither a feedback section nor the feedback text, whatever    *)
(* feedback is passed; the worker prompt of an iteration from 2 on has the *)
(* fix-issues framing instead, the plan under "## Original Plan" and the   *)
(* feedback under "## Reviewer Feedback".                                  *)
(***************************************************************************)
C24_Built == pc \in {"built", "rebuilt"}

C24_WorkerPromptText == effects[3].text

C24_WorkerPrompt ==
    C24_Built =>
        /\ effects[3].what = "worker"
        /\ iteration = 1 =>
              /\ Head(C24_WorkerPromptText) = "Implement Linear ticket"
              /\ Contains(C24_WorkerPromptText, <<"## Plan", "\n">> \o planOutput \o <<"\n">>)
              /\ ~Contains(C24_WorkerPromptText, <<"## Reviewer Feedback">>)
              /\ ~Contains(C24_WorkerPromptText, lastReviewerFeedback)
              /\ ~Contains(C24_WorkerPromptText, <<"Fix issues for Linear ticket">>)
        /\ iteration >= 2 =>
              /\ Head(C24_WorkerPromptText) = "Fix issues for Linear ticket"
              /\ Contains(C24_WorkerPromptText,
                          <<"## Original Plan", "\n">> \o planOutput \o <<"\n">>)
              /\ Contains(C24_WorkerPromptText,
                          <<"## Reviewer Feedback", "\n">> \o lastReviewerFeedback \o <<"\n">>)
              /\ ~Contains(C24_WorkerPromptText, <<"Implement Linear ticket">>)
              /\ ~Contains(C24_WorkerPromptText, <<"Execute all steps.">>)

C24_Witness ==
    /\ pc = "built"
    /\ iteration = 2
    /\ lastReviewerFeedback = RevNeedsWork
    /\ planOutput = <<"plan", " ", "B">>
    /\ Contains(C24_WorkerPromptText, RevNeedsWork)

(***************************************************************************)
(* C25: every prompt carries the recorded output of the phase it depends   *)
(* on.  The scout section of the planner prompt is the scout's output; the *)
(* worker section of the reviewer prompt of iteration i is the output of   *)
(* worker-i; and the feedback section of the worker prompt of an iteration *)
(* i > 1 is the output of reviewer-(i-1).  Each of these phases has        *)
(* returned and is in the history when the prompt is built.                *)
(***************************************************************************)
C25_Section(heading, body, after) == <<heading, "\n">> \o body \o <<"\n", after>>

C25_Record(role, i) ==
    IF role = "scout" THEN 1 ELSE IF role = "worker" THEN 2 * i + 1 ELSE 2 * i + 2

C25_Carries(prompt, heading, role, i, after) ==
    /\ Len(phases) >= C25_Record(role, i)
    /\ phases[C25_Record(role, i)].agent = role
    /\ phases[C25_Record(role, i)].iter = i
    /\ phases[C25_Record(role, i)].exitCode = 0
    /\ Contains(prompt, C25_Section(heading, phases[C25_Record(role, i)].output, after))

C25_PromptInputs ==
    \A j \in AgentSteps :
        /\ effects[j].what = "planner" =>
              C25_Carries(effects[j].text, "## Scout Findings", "scout", 0,
                          "Create a concrete, step-by-step plan.")
        /\ effects[j].what = "reviewer" =>
              C25_Carries(effects[j].text, "## Worker Output", "worker", effects[j].n,
                          "End your response with exactly ONE of:")
        /\ effects[j].what = "worker" /\ effects[j].n > 1 =>
              C25_Carries(effects[j].text, "## Reviewer Feedback", "reviewer", effects[j].n - 1,
                          "Address all critical and warning items from the reviewer.")

C25_Witness ==
    /\ Invoked("reviewer", 2)
    /\ Len(phases) >= 5
    /\ phases[3].output = <<"w1">>
    /\ phases[5].output = <<"w2">>
    /\ phases[4].output = RevNoMarker

(***************************************************************************)
(* C26: two calls of a prompt builder with equal arguments return equal    *)
(* text, on whatever host they are made: the four prompts built again with *)
(* the same arguments, on a host of any locale, are the four prompts built *)
(* first.  The scout prompt of a ticket with comments breaks this: it      *)
(* renders each comment's date with the host's toLocaleDateString.         *)
(***************************************************************************)
C26_Original ==
    pc = "rebuilt" =>
        /\ Len(effects) = 8
        /\ \A i \in 1..4 : effects[i].text = effects[i + 4].text

\* The three builders that read nothing but their arguments.
C26_PureBuilders ==
    pc = "rebuilt" => \A i \in 2..4 : effects[i].text = effects[i + 4].text

(***************************************************************************)
(* C27: a call of postComment, in either version of linear.ts, settles     *)
(* with true or false and never rejects: without an API key, with or       *)
(* without the issue id, with a ticket id that cannot be parsed, and       *)
(* however the lookup request and the commentCreate request end (network   *)
(* exception, HTTP error, GraphQL error, issue not found).                 *)
(***************************************************************************)
C27_Settled == pc = "posted"

C27_NeverThrows ==
    C27_Settled =>
        /\ io.result \in {"true", "false"}
        /\ io.result003 \in {"true", "false"}
        /\ io.mutation \in GraphQLThrows => io.result = "false" /\ io.result003 = "false"
        /\ ~io.issueIdGiven /\ (~io.dash \/ io.lookup # "found") =>
              io.result = "false" /\ io.result003 = "false"

C27_Witness ==
    /\ C27_Settled
    /\ io.hasKey
    /\ ~io.issueIdGiven
    /\ io.dash
    /\ io.lookup = "found"
    /\ io.mutation = "network"
    /\ io.result = "false"

(***************************************************************************)
(* C28: postComment returns true exactly when the comment was created: an  *)
(* API key was found, the issue id was passed or was resolved, and the     *)
(* commentCreate mutation reported success.  It returns false without a    *)
(* key, with an unresolved issue, with a failed request, and when the      *)
(* mutation reports success = false.  The older linear.ts returns true in  *)
(* that last case.                                                         *)
(***************************************************************************)
C28_Created ==
    /\ io.hasKey
    /\ io.issueIdGiven \/ (io.dash /\ io.lookup = "found")
    /\ io.mutation = "success"

C28_Original ==
    pc = "posted" =>
        /\ io.result = "true" <=> C28_Created
        /\ io.result003 = "true" <=> C28_Created

\* The current linear.ts alone meets the claim.
C28_CurrentVersion == pc = "posted" => (io.result = "true" <=> C28_Created)

(***************************************************************************)
(* C29: truncateForLinearComment with its budget of 12000 characters and   *)
(* truncateOutput with its budgets of 2000 and 500 characters return a     *)
(* string within the budget unchanged, all its characters and no marker;   *)
(* a longer string comes back as a proper prefix that ends with the        *)
(* truncation marker and is no longer than the budget.                     *)
(***************************************************************************)
C29_Truncated == pc = "truncated"

C29_WithinBudget ==
    C29_Truncated =>
        /\ io.len <= io.maxChars => io.result = [kept |-> io.len, marker |-> FALSE]
        /\ io.len > io.maxChars =>
              /\ io.result.marker
              /\ io.result.kept < io.len
              /\ io.result.kept > 0
              /\ ResultLength(io.result) <= io.maxChars
        /\ ResultLength(io.result) <= io.maxChars
        /\ ResultLength(io.result) <= io.len

C29_Witness ==
    /\ C29_Truncated
    /\ io.fn = "truncateOutput"
    /\ io.maxChars = 500
    /\ io.len = 501
    /\ io.result.marker
    /\ ResultLength(io.result) = 417

(***************************************************************************)
(* C30: in the prompt-driven command, the ticket fetch comes before the    *)
(* "Assembly Started" comment and the comment before the orchestration     *)
(* prompt; once the ticket was fetched the command ends with exactly one   *)
(* started comment attempted and exactly one prompt sent, whatever became  *)
(* of the comment fetch and of the post; and when the ticket fetch fails,  *)
(* or the id is rejected, no comment and no prompt is produced.            *)
(***************************************************************************)
C30_Fetches == EffectsAt("call", "fetchTicket")

C30_Comments == EffectsAt("post", "started")

C30_Prompts == EffectsAt("prompt", "assemble")

C30_StepOrder ==
    /\ \A c \in C30_Comments : \E f \in C30_Fetches : f < c
    /\ \A p \in C30_Prompts : \E c \in C30_Comments : c < p
    /\ Cardinality(C30_Fetches) <= 1
    /\ Cardinality(C30_Comments) <= 1
    /\ Cardinality(C30_Prompts) <= 1
    /\ (pc = "done" /\ ticketFetch = "ok") =>
          /\ Cardinality(C30_Comments) = 1
          /\ Cardinality(C30_Prompts) = 1
          /\ effects[Len(effects)].text = buildAssemblePrompt(TicketFor(Trim(args)), existingComments, locale)
    /\ ticketFetch # "ok" => C30_Comments = {} /\ C30_Prompts = {}

C30_Witness ==
    /\ pc = "done"
    /\ ticketFetch = "ok"
    /\ commentsFetch = "error"
    /\ postResult = FALSE
    /\ Cardinality(C30_Prompts) = 1

C30_FetchFailed ==
    /\ pc = "done"
    /\ ticketFetch = "notfound"
    /\ C30_Fetches # {}
    /\ C30_Prompts = {}

(***************************************************************************)
(* C21: two invocations interleaved at their awaits.  Invocation 3, given  *)
(* the inputs of the reference invocation that ran alone, builds the same  *)
(* phase history and makes the same calls step by step whatever the other  *)
(* invocation does in between, and ends with the same phase history,       *)
(* verdict, latest worker output, latest reviewer feedback, partial        *)
(* summary flag and details.  Every ordered pair of input sequences is     *)
(* tried, so the same holds for the other invocation of each pair.         *)
(***************************************************************************)
C21_IsPrefix(s, t) == Len(s) <= Len(t) /\ \A i \in 1..Len(s) : s[i] = t[i]

C21_AsAlone(r) ==
    r.runNo = 3 =>
        /\ C21_IsPrefix(r.phases, firstRun.phases)
        /\ C21_IsPrefix(r.effects, firstRun.calls)
        /\ r.pc = "done" => Outcome(r) = firstRun

C21_RunsIndependent ==
    runNo \in {3, 4} => C21_AsAlone(Suspended) /\ C21_AsAlone(parked)

C21_Witness ==
    /\ runNo = 3
    /\ pc = "done"
    /\ finalVerdict = "approved"
    /\ Len(phases) = 6
    /\ parked.runNo = 4
    /\ parked.pc = "worker"
    /\ parked.iteration = 2
    /\ parked.finalVerdict = "needs_work"
    /\ parked.lastReviewerFeedback = RevNeedsWork
    /\ parked.args # args
    /\ Outcome(Suspended) = firstRun

(***************************************************************************)
(* C31: a phase that exits 0 has exactly one progress document, posted     *)
(* once its record is in the phase history and before the next agent step  *)
(* is invoked; a phase that exits nonzero has no progress document and     *)
(* exactly one error document, posted in the same place.                   *)
(***************************************************************************)
C31_ProgressDocs ==
    {i \in 1..Len(effects) : effects[i].kind = "post" /\ effects[i].what \in REQUIRED_AGENTS}

C31_ErrorDocs == EffectsAt("post", "error")

\* The number of agent steps invoked before the call at position i.
C31_StepsBefore(i) == Cardinality({j \in AgentSteps : j < i})

C31_DocsOf(k, docs) == {i \in docs : C31_StepsBefore(i) = k}

C31_OneDocPerPhase ==
    /\ \A i \in C31_ProgressDocs \cup C31_ErrorDocs :
          /\ C31_StepsBefore(i) \in 1..Len(phases)
          /\ i \in C31_ProgressDocs =>
                /\ phases[C31_StepsBefore(i)].agent = effects[i].what
                /\ phases[C31_StepsBefore(i)].iter = effects[i].n
    /\ \A k \in 1..Len(phases) :
          IF phases[k].exitCode = 0
          THEN /\ Cardinality(C31_DocsOf(k, C31_ProgressDocs)) = 1
               /\ C31_DocsOf(k, C31_ErrorDocs) = {}
          ELSE /\ C31_DocsOf(k, C31_ProgressDocs) = {}
               /\ Cardinality(C31_DocsOf(k, C31_ErrorDocs)) = 1

C31_Witness ==
    /\ pc = "done"
    /\ Len(phases) = 5
    /\ phases[5].agent = "worker"
    /\ phases[5].exitCode = 1
    /\ Cardinality(C31_ProgressDocs) = 4
    /\ Cardinality(C31_ErrorDocs) = 1

(***************************************************************************)
(* C32: the partial-failure report gives, as its count of completed        *)
(* phases, the number of phases that exited 0 before the failure: the      *)
(* failed phase is not counted.  The handler counts phases.length, which   *)
(* holds the failed phase's record as well.                                *)
(***************************************************************************)
C32_PartialReports == EffectsAt("post", "partial")

C32_Succeeded == Cardinality({k \in 1..Len(phases) : phases[k].exitCode = 0})

C32_Original ==
    \A i \in C32_PartialReports : effects[i].n = C32_Succeeded

\* What the handler reports: one more than the phases that succeeded.
C32_CountsFailedPhase ==
    \A i \in C32_PartialReports :
        /\ effects[i].n = Len(phases)
        /\ effects[i].n = C32_Succeeded + 1
        /\ phases[Len(phases)].exitCode # 0

(***************************************************************************)
(* C33: in the final details the status is complete exactly when no phase  *)
(* exited nonzero, no agent step threw and the last review held a verdict  *)
(* marker, and failed otherwise; a reported verdict approved comes with    *)
(* the status complete and a last phase record of a reviewer that exited   *)
(* 0.  A step that rejects with an empty message leaves fatalError falsy,  *)
(* and a verdict kept from an earlier review then gives complete.          *)
(***************************************************************************)
C33_Reported == pc = "done" /\ details.status # "running"

\* An agent step threw: it was invoked and left no phase record.
C33_StepThrew == Cardinality(AgentSteps) > Len(phases)

C33_LastReviewHadVerdict ==
    /\ Len(phases) > 0
    /\ phases[Len(phases)].agent = "reviewer"
    /\ parseVerdict(phases[Len(phases)].output) # NULL

C33_CleanRun == ~SomePhaseFailed /\ ~C33_StepThrew /\ C33_LastReviewHadVerdict

C33_Original ==
    C33_Reported =>
        /\ details.status = "complete" <=> C33_CleanRun
        /\ details.status \in {"complete", "failed"}
        /\ details.verdict = "approved" =>
              /\ details.status = "complete"
              /\ phases[Len(phases)].agent = "reviewer"
              /\ phases[Len(phases)].exitCode = 0

\* What holds of the handler: the claim for every run but those where a step threw with an
\* empty message, and the approved case in every run.
C33_ButEmptyMessage ==
    C33_Reported =>
        /\ (C33_StepThrew => fatalError # "") => (details.status = "complete" <=> C33_CleanRun)
        /\ details.verdict = "approved" =>
              /\ details.status = "complete"
              /\ phases[Len(phases)].agent = "reviewer"
              /\ phases[Len(phases)].exitCode = 0

C33_StaleComplete ==
    /\ C33_Reported
    /\ C33_StepThrew
    /\ fatalError = ""
    /\ details.status = "complete"
    /\ details.verdict = "needs_work"

(***************************************************************************)
(* C34: when the final summary is posted for a run that failed, because    *)
(* the scout or the planner exited nonzero or because an agent step threw  *)
(* in any phase, the summary's status is Failed, never Approved or Needs   *)
(* Work.  The summary is rendered from finalVerdict alone, which keeps the *)
(* verdict of the last review that was read.                               *)
(***************************************************************************)
C34_Summaries == EffectsAt("post", "summary")

C34_StepThrew == Cardinality(AgentSteps) > Len(phases)

C34_EndedInFailure == SomePhaseFailed \/ C34_StepThrew

C34_Original ==
    \A i \in C34_Summaries : C34_EndedInFailure => effects[i].arg = "Failed"

\* What holds of the handler: the summary of a failed run shows the verdict of the last
\* review read, and Failed only when no review was read or it held no marker.
C34_ShowsLastVerdict ==
    \A i \in C34_Summaries :
        /\ effects[i].arg = SummaryStatus(finalVerdict)
        /\ C34_EndedInFailure => effects[i].arg \in {"Failed", "Needs Work"}
        /\ (C34_EndedInFailure /\ iteration <= 1) => effects[i].arg = "Failed"

C34_NeedsWorkShown ==
    /\ pc = "done"
    /\ C34_StepThrew
    /\ fatalError = "boom"
    /\ iteration = 2
    /\ \E i \in C34_Summaries : effects[i].arg = "Needs Work"
    /\ details.status = "failed"

(***************************************************************************)
(* C35: an agent step is invoked only in a run where all four required     *)
(* agents were discovered.  A run in which one is missing ends with one    *)
(* error notification, an empty phase history, no error document, no       *)
(* summary or partial summary and no assemble-complete message, and with   *)
(* the Assembly Started comment already posted.                            *)
(***************************************************************************)
C35_Discovered == pc \notin {"start", "waitForIdle", "fetchTicket", "fetchComments", "postStart"}

C35_ErrorNotices == {i \in 1..Len(effects) : effects[i].kind = "notify" /\ effects[i].arg = "error"}

C35_AllAgentsRequired ==
    /\ AgentSteps # {} => agents = REQUIRED_AGENTS
    /\ (C35_Discovered /\ ticketFetch = "ok" /\ agents # REQUIRED_AGENTS) =>
          /\ pc = "done"
          /\ Cardinality(C35_ErrorNotices) = 1
          /\ effects[Len(effects)] = Notify("Missing agents", "error")
          /\ phases = <<>>
          /\ AgentSteps = {}
          /\ EffectsAt("post", "error") = {}
          /\ SummaryPosts = {}
          /\ EffectsAt("message", "assemble-complete") = {}
          /\ Count("post", "started") = 1
          /\ PostedDocs = <<"started">>
          /\ details = NoDetails

C35_Witness ==
    /\ pc = "done"
    /\ ticketFetch = "ok"
    /\ agents = REQUIRED_AGENTS \ {"reviewer"}
    /\ Count("post", "started") = 1
    /\ Cardinality(C35_ErrorNotices) = 1

====
